---- MODULE Spec2Model ----
(***************************************************************************)
(* Person-detection pipeline of the jetson repository: the camera          *)
(* acquisition state machine (hardware/camera.py), the capture and         *)
(* inference worker loops sharing a SharedState (vision/yolo_infer.py) and *)
(* the orchestrator that starts, displays and shuts them down (main.py).   *)
(*                                                                         *)
(* Pipelines are numbered 1..N in the order of CAMERA_INDICES; the         *)
(* orchestrator's current_camera_idx keeps the source's 0-based value.     *)
(* An Optional value is a sequence of length <= 1 (<<>> is None).  A frame *)
(* is identified by the ordinal of the device read that produced it.       *)
(***************************************************************************)
EXTENDS Integers, Sequences, FiniteSets, TLC

VARIABLES
    IS_WINDOWS,         \* camera.py:17, fixed for the whole run
    CAMERA_INDICES,     \* main.py:45, the configured camera indices
    attached,           \* the indices at which a camera device exists, fixed for the run
    device,             \* per pipeline: frames the camera delivered / will deliver
    pc_main,            \* position of main()
    cam_k,              \* main.py:45, position of the start-up loop in CAMERA_INDICES
    cap,                \* open_camera_with_retry: the local handle `cap`
    primary,            \* open_camera_with_retry: capture objects created and not yet released
    retry_count,        \* open_camera_with_retry: local retry_count
    error_type,         \* open_camera_with_retry: result of the last diagnosis
    env,                \* what opens, as seen by the last open or diagnosis of the call
    zero_cameras,       \* nothing has opened anywhere during the current call
    ret,                \* open_camera_with_retry: the value returned (None or the handle)
    cameras,            \* main.py:42, list of CameraCapture objects
    states,             \* main.py:43, list of SharedState objects
    capture,            \* capture_loop threads: position and locals
    inference,          \* inference_loop threads: position and locals
    current_camera_idx, \* main.py:93
    frame_to_show,      \* main.py:104
    detections,         \* main.py:105
    j,                  \* position of the shutdown loops of main.py:182-193
    window,             \* OpenCV display resources
    lockstep,           \* per pipeline: inference has seen every sequence number so far
    warning_zone,       \* postprocess.py:48, the zone handed to check_intrusion
    intrusion_detected, \* postprocess.py:57, the result of check_intrusion
    fps_counter,        \* main.py:64, the FPSCounter object
    fps,                \* main.py:120, the value update() returned last
    clock               \* time.time(), in ticks

vars == <<IS_WINDOWS, CAMERA_INDICES, attached, device, pc_main, cam_k, cap, primary, retry_count,
          error_type, env, zero_cameras, ret, cameras, states, capture, inference,
          current_camera_idx, frame_to_show, detections, j, window, lockstep,
          warning_zone, intrusion_detected, fps_counter, fps, clock>>

config == <<IS_WINDOWS, CAMERA_INDICES, attached>>
startVars == <<cap, primary, retry_count, error_type, env, zero_cameras, ret>>
displayVars == <<current_camera_idx, frame_to_show, detections>>
\* the overlay and the frame rate: computed from what the display loop read,
\* read by nothing
drawVars == <<warning_zone, intrusion_detected, fps_counter, fps, clock>>

-----------------------------------------------------------------------------
(* Configuration and bounds *)

CAMERA_MAX_RETRIES == 10
INFER_STRIDE == 3

\* frames each camera delivers in the two-camera configuration
MaxFrames == 1
\* frames the camera delivers in the scripted single-camera run
ScriptFrames == 10
\* frames the camera delivers in the short single-camera run
ShortFrames == 5
\* largest camera index requested in the single-camera configurations
MaxIndex == 3
\* release() calls made on the camera objects under test
MaxReleases == 3
\* largest number of cameras for which the selection arithmetic is checked
MaxCameras == 4
\* largest pixel coordinate of a box or a zone handed to check_intrusion
MaxCoord == 2
\* longest list of detections handed to check_intrusion
MaxBoxes == 2
\* clock ticks in one second
TicksPerSecond == 4
\* last tick of the clock in the frame-rate runs
MaxClock == 9
\* most update() calls in one window of the frame-rate runs
MaxUpdates == 30

None == <<>>
Some(x) == <<x>>

-----------------------------------------------------------------------------
(* hardware/camera.py: opening and diagnosing a camera *)

PreferredBackend(win) == IF win THEN "CAP_DSHOW" ELSE "CAP_V4L2"

FallbackBackends(win) ==
    IF win THEN <<"CAP_MSMF", "CAP_ANY">>
           ELSE <<"CAP_V4L2", "CAP_GSTREAMER", "CAP_ANY">>

HintedBackends(win) ==
    IF win THEN {"CAP_DSHOW", "CAP_MSMF"} ELSE {"CAP_V4L2", "CAP_GSTREAMER"}

ProbeIndices == 0..2

\* every index a camera can be at
AllIndices == 0..MaxIndex

\* The outside world during one open or one diagnosis of camera_index: the
\* indices that open without a backend hint (CAP_ANY) and the explicit
\* backends that open camera_index; only an attached device opens.
Envs(camera_index, win) ==
    [any : SUBSET ((ProbeIndices \cup {camera_index}) \cap attached),
     hinted : IF camera_index \in attached THEN SUBSET HintedBackends(win)
              ELSE {{}}]

NoEnv == [any |-> {}, hinted |-> {}]

\* cv2.VideoCapture(idx, backend).isOpened(); no hint is CAP_ANY
VideoCapture(e, camera_index, idx, backend) ==
    IF backend = "CAP_ANY" THEN idx \in e.any
    ELSE idx = camera_index /\ backend \in e.hinted

NothingOpens(e) == e.any = {} /\ e.hinted = {}

\* a diagnosis whose index test is off by one
diagnose_index_above_one(camera_index, win, e) ==
    IF VideoCapture(e, camera_index, camera_index, "CAP_ANY") THEN "OK"
    ELSE IF \E b \in 1..Len(FallbackBackends(win)) :
                VideoCapture(e, camera_index, camera_index, FallbackBackends(win)[b])
         THEN "BACKEND_ERROR"
    ELSE LET any_camera_found ==
                 \E idx \in ProbeIndices : VideoCapture(e, camera_index, idx, "CAP_ANY")
         IN  IF any_camera_found /\ camera_index > 1 THEN "DEVICE_NOT_FOUND"
             ELSE IF ~any_camera_found THEN "DEVICE_NOT_FOUND"
             ELSE "DEVICE_BUSY"

\* a diagnosis that takes a system without any camera for a busy device
diagnose_none_is_busy(camera_index, win, e) ==
    IF VideoCapture(e, camera_index, camera_index, "CAP_ANY") THEN "OK"
    ELSE IF \E b \in 1..Len(FallbackBackends(win)) :
                VideoCapture(e, camera_index, camera_index, FallbackBackends(win)[b])
         THEN "BACKEND_ERROR"
    ELSE LET any_camera_found ==
                 \E idx \in ProbeIndices : VideoCapture(e, camera_index, idx, "CAP_ANY")
         IN  IF any_camera_found /\ camera_index >= 1 THEN "DEVICE_NOT_FOUND"
             ELSE "DEVICE_BUSY"

\* a diagnosis that tries the fallback backends before the plain open
diagnose_fallback_first(camera_index, win, e) ==
    IF \E b \in 1..Len(FallbackBackends(win)) :
          VideoCapture(e, camera_index, camera_index, FallbackBackends(win)[b])
    THEN "BACKEND_ERROR"
    ELSE IF VideoCapture(e, camera_index, camera_index, "CAP_ANY") THEN "OK"
    ELSE LET any_camera_found ==
                 \E idx \in ProbeIndices : VideoCapture(e, camera_index, idx, "CAP_ANY")
         IN  IF any_camera_found /\ camera_index >= 1 THEN "DEVICE_NOT_FOUND"
             ELSE IF ~any_camera_found THEN "DEVICE_NOT_FOUND"
             ELSE "DEVICE_BUSY"

diagnose_camera_error(camera_index, win, e) ==
    IF VideoCapture(e, camera_index, camera_index, "CAP_ANY") THEN "OK"
    ELSE IF \E b \in 1..Len(FallbackBackends(win)) :
                VideoCapture(e, camera_index, camera_index, FallbackBackends(win)[b])
         THEN "BACKEND_ERROR"
    ELSE LET any_camera_found ==
                 \E idx \in ProbeIndices : VideoCapture(e, camera_index, idx, "CAP_ANY")
         IN  IF any_camera_found /\ camera_index >= 1 THEN "DEVICE_NOT_FOUND"
             ELSE IF ~any_camera_found THEN "DEVICE_NOT_FOUND"
             ELSE "DEVICE_BUSY"

\* test_cap = cv2.VideoCapture(idx, backend): the probe handle
test_cap(e, camera_index, idx, backend) ==
    IF VideoCapture(e, camera_index, idx, backend) THEN "open" ELSE "closed"

\* a release that is skipped on the branch that found the camera open
release_unless_opened(handle) == IF handle = "open" THEN "open" ELSE "released"

\* test_cap.release()
test_cap_release(handle) == "released"

RECURSIVE FallbackProbes(_, _, _, _)
\* diagnose_camera_error lines 44-50, from the k-th backend on: whether one
\* opened, and the probe handles as they are left
FallbackProbes(e, camera_index, backends, k) ==
    IF k > Len(backends) THEN [found |-> FALSE, handles |-> <<>>]
    ELSE LET h == test_cap(e, camera_index, camera_index, backends[k])
         IN  IF h = "open"
             THEN [found |-> TRUE, handles |-> <<test_cap_release(h)>>]
             ELSE LET rest == FallbackProbes(e, camera_index, backends, k + 1)
                  IN  [found |-> rest.found,
                       handles |-> <<test_cap_release(h)>> \o rest.handles]

RECURSIVE IndexProbes(_, _, _)
\* diagnose_camera_error lines 53-62, from index idx on
IndexProbes(e, camera_index, idx) ==
    IF idx \notin ProbeIndices THEN [found |-> FALSE, handles |-> <<>>]
    ELSE LET h == test_cap(e, camera_index, idx, "CAP_ANY")
         IN  IF h = "open"
             THEN [found |-> TRUE, handles |-> <<test_cap_release(h)>>]
             ELSE LET rest == IndexProbes(e, camera_index, idx + 1)
                  IN  [found |-> rest.found,
                       handles |-> <<test_cap_release(h)>> \o rest.handles]

\* diagnose_camera_error statement by statement: its result and every probe
\* handle it created, in order, as the function leaves it
diagnose_run(camera_index, win, e) ==
    LET first == test_cap(e, camera_index, camera_index, "CAP_ANY")
        fallback == FallbackProbes(e, camera_index, FallbackBackends(win), 1)
        probes == IndexProbes(e, camera_index, 0)
    IN  IF first = "open"
        THEN [result |-> "OK", handles |-> <<test_cap_release(first)>>]
        ELSE IF fallback.found
        THEN [result |-> "BACKEND_ERROR",
              handles |-> <<test_cap_release(first)>> \o fallback.handles]
        ELSE [result |-> IF probes.found /\ camera_index >= 1 THEN "DEVICE_NOT_FOUND"
                         ELSE IF ~probes.found THEN "DEVICE_NOT_FOUND"
                         ELSE "DEVICE_BUSY",
              handles |-> <<test_cap_release(first)>> \o fallback.handles
                             \o probes.handles]

\* the handle a preferred-backend open yields
OpenPreferred(camera_index, win, e) ==
    IF VideoCapture(e, camera_index, camera_index, PreferredBackend(win))
    THEN "open" ELSE "closed"

NumCameras == Len(CAMERA_INDICES)
Requested == CAMERA_INDICES[cam_k]

\* a SharedState whose sequence number starts at 0
SharedStateFromZero ==
    [frame_lock |-> "free", det_lock |-> "free",
     latest_frame |-> None, latest_frame_seq |-> 0,
     last_detections |-> <<>>, stop_event |-> FALSE]

\* SharedState.__init__
SharedState ==
    [frame_lock |-> "free", det_lock |-> "free",
     latest_frame |-> None, latest_frame_seq |-> -1,
     last_detections |-> <<>>, stop_event |-> FALSE]

\* CameraCapture.__init__ followed by a successful start()
CameraCapture(camera_index) ==
    [camera_index |-> camera_index, cap |-> "open", running |-> TRUE]

\* CameraCapture.__init__: no handle yet, not running
NewCameraCapture(camera_index) ==
    [camera_index |-> camera_index, cap |-> "None", running |-> FALSE]

\* a release that forgets to clear the running flag
release_keeps_running(cam) ==
    [cam EXCEPT !.cap = IF cam.cap = "None" THEN "None" ELSE "released"]

\* CameraCapture.release
release(cam) == [cam EXCEPT !.running = FALSE,
                            !.cap = IF cam.cap = "None" THEN "None" ELSE "released"]

-----------------------------------------------------------------------------
(* vision/postprocess.py: the warning zone *)

\* the corners (x1, y1, x2, y2) of a detection (x1, y1, x2, y2, cls_id, score)
Corners(det) == <<det[1], det[2], det[3], det[4]>>

\* an overlap test that does not count a shared edge
OverlapsInterior(box, zone) ==
    ~(box[3] <= zone[1] \/ box[1] >= zone[3] \/ box[4] <= zone[2] \/ box[2] >= zone[4])

\* check_intrusion line 27: the box (x1, y1, x2, y2) overlaps the zone
\* (wx1, wy1, wx2, wy2)
Overlaps(box, zone) ==
    ~(box[3] < zone[1] \/ box[1] > zone[3] \/ box[4] < zone[2] \/ box[2] > zone[4])

RECURSIVE check_intrusion(_, _)
\* check_intrusion lines 23-29: True at the first detection that overlaps
check_intrusion(dets, zone) ==
    IF dets = <<>> THEN FALSE
    ELSE IF Overlaps(Corners(Head(dets)), zone) THEN TRUE
    ELSE check_intrusion(Tail(dets), zone)

-----------------------------------------------------------------------------
(* utils/time_utils.py: the frame rate *)

\* count / elapsed for elapsed given in ticks, as a fraction of frames per second
Rate(count, elapsed) == [num |-> count * TicksPerSecond, den |-> elapsed]

\* 0.0
NoRate == [num |-> 0, den |-> 1]

\* FPSCounter.__init__ at time now
FPSCounter(now) == [frame_count |-> 0, start_time |-> now, fps |-> NoRate]

\* an update that computes the rate without counting the call itself
update_before_count(c, now, later) ==
    IF now - c.start_time >= TicksPerSecond
    THEN [frame_count |-> 0, start_time |-> later,
          fps |-> Rate(c.frame_count, now - c.start_time)]
    ELSE [c EXCEPT !.frame_count = c.frame_count + 1]

\* FPSCounter.update: time.time() is `now` at line 29 and `later` at line 34
update(c, now, later) ==
    LET frame_count == c.frame_count + 1
        elapsed == now - c.start_time
    IN  IF elapsed >= TicksPerSecond
        THEN [frame_count |-> 0, start_time |-> later,
              fps |-> Rate(frame_count, elapsed)]
        ELSE [c EXCEPT !.frame_count = frame_count]

\* the overlay and the frame rate before anything was drawn
NoDraw ==
    /\ warning_zone = <<>> /\ intrusion_detected = FALSE
    /\ fps_counter = FPSCounter(0) /\ fps = NoRate /\ clock = 0

-----------------------------------------------------------------------------
(* main.py: start-up *)

\* a release that leaves the capture object as it was
cap_not_released(held) == held

\* cap.release() at camera.py:149 and 171: one capture object fewer is held
cap_release(held) == held - 1

\* CameraCapture.start: keep what open_camera_with_retry returned; running is
\* set only if that is a handle
start(cam, handle) ==
    IF handle = "None" THEN [cam EXCEPT !.cap = "None"]
    ELSE [cam EXCEPT !.cap = "open", !.running = TRUE]

\* a retry bound that lets one retry too many through
MayRetryOnceMore(count, max_retries) == count <= max_retries

\* open_camera_with_retry line 127: the retry bound of the loop test
MayRetry(count, max_retries) == count < max_retries

\* open_camera_with_retry, lines 110-126: the first open with the preferred backend
OpenFirst ==
    /\ pc_main = "camera_init"
    /\ \E e \in Envs(Requested, IS_WINDOWS) :
          /\ env' = e
          /\ cap' = OpenPreferred(Requested, IS_WINDOWS, e)
          /\ zero_cameras' = NothingOpens(e)
    /\ primary' = primary + 1
    /\ retry_count' = 0
    /\ error_type' = "none"
    /\ pc_main' = "retry_loop"
    /\ UNCHANGED <<config, drawVars, lockstep, device, cam_k, ret, cameras, states,
                   capture, inference, displayVars, j, window>>

\* lines 127-146: the loop test passed; diagnose and count the retry
Diagnose ==
    /\ pc_main = "retry_loop"
    /\ cap # "open" /\ MayRetry(retry_count, CAMERA_MAX_RETRIES)
    /\ \E e \in Envs(Requested, IS_WINDOWS) :
          /\ env' = e
          /\ error_type' = diagnose_camera_error(Requested, IS_WINDOWS, e)
          /\ zero_cameras' = (zero_cameras /\ NothingOpens(e))
    /\ retry_count' = retry_count + 1
    /\ pc_main' = "retry_sleep"
    /\ UNCHANGED <<config, drawVars, lockstep, device, cam_k, cap, primary, ret, cameras,
                   states, capture, inference, displayVars, j, window>>

\* lines 148-162: sleep, release the failed handle, open again
Reopen ==
    /\ pc_main = "retry_sleep"
    /\ \E e \in Envs(Requested, IS_WINDOWS) :
          /\ env' = e
          /\ cap' = OpenPreferred(Requested, IS_WINDOWS, e)
          /\ zero_cameras' = (zero_cameras /\ NothingOpens(e))
    /\ primary' = cap_release(primary) + 1
    /\ pc_main' = "retry_loop"
    /\ UNCHANGED <<config, drawVars, lockstep, device, cam_k, retry_count, error_type,
                   ret, cameras, states, capture, inference, displayVars, j, window>>

\* lines 164-172: the loop ended without an open handle; release it, return None
ReturnNone ==
    /\ pc_main = "retry_loop"
    /\ cap # "open" /\ ~MayRetry(retry_count, CAMERA_MAX_RETRIES)
    /\ cap' = "released"
    /\ primary' = cap_release(primary)
    /\ ret' = "None"
    /\ pc_main' = "start_failed"
    /\ UNCHANGED <<config, drawVars, lockstep, device, cam_k, retry_count, error_type,
                   env, zero_cameras, cameras, states, capture, inference,
                   displayVars, j, window>>

\* lines 174-180: the loop ended with an open handle; return it
ReturnCap ==
    /\ pc_main = "retry_loop"
    /\ cap = "open"
    /\ ret' = "cap"
    /\ pc_main' = "start_ok"
    /\ UNCHANGED <<config, drawVars, lockstep, device, cam_k, cap, primary, retry_count,
                   error_type, env, zero_cameras, cameras, states, capture, inference,
                   displayVars, j, window>>

\* a failed start-up that leaves the started cameras open
ReleaseNothing(cams) == cams

\* the cameras released when a later camera fails to start, main.py:54-55
ReleaseStarted(cams) == [i \in 1..Len(cams) |-> release(cams[i])]

\* CameraCapture.start returns False (camera.py:200-205); main releases the
\* cameras already started and returns (main.py:51-56)
StartFail ==
    /\ pc_main = "start_failed"
    /\ cameras' = ReleaseStarted(cameras)
    /\ pc_main' = "aborted"
    /\ UNCHANGED <<config, drawVars, lockstep, device, cam_k, startVars, states,
                   capture, inference, displayVars, j, window>>

\* CameraCapture.start keeps the handle and returns True (camera.py:199-212);
\* main appends the camera and a fresh SharedState (main.py:57-59)
StartOk ==
    /\ pc_main = "start_ok"
    /\ cameras' = Append(cameras, CameraCapture(Requested))
    /\ states' = Append(states, SharedState)
    /\ cam_k' = cam_k + 1
    /\ cap' = "None" /\ primary' = 0 /\ retry_count' = 0 /\ error_type' = "none"
    /\ env' = NoEnv /\ zero_cameras' = FALSE /\ ret' = "none"
    /\ pc_main' = IF cam_k < NumCameras THEN "camera_init" ELSE "spawn"
    /\ UNCHANGED <<config, drawVars, lockstep, device, capture, inference,
                   displayVars, j, window>>

\* locals of capture_loop at thread start (yolo_infer.py:111); `frame` is kept
\* only from the read to the publish that consumes it
CaptureThread == [pc |-> "loop", frame |-> None, frame_count |-> 0]

\* an inference loop whose last_processed_seq starts at 0
InferenceThreadFromZero(infer_stride) ==
    [pc |-> "loop", seq |-> -1, last_processed_seq |-> 0,
     frame_to_infer |-> None, detections |-> <<>>, inference_count |-> 0]

\* locals of inference_loop at thread start (yolo_infer.py:146-147)
InferenceThread(infer_stride) ==
    [pc |-> "loop", seq |-> -1, last_processed_seq |-> -infer_stride,
     frame_to_infer |-> None, detections |-> <<>>, inference_count |-> 0]

\* main.py:68-84: start the capture and the inference thread of one camera
SpawnThreads ==
    /\ pc_main = "spawn"
    /\ capture' = Append(capture, CaptureThread)
    /\ inference' = Append(inference, InferenceThread(INFER_STRIDE))
    /\ lockstep' = Append(lockstep, TRUE)
    /\ pc_main' = IF Len(capture) + 1 < Len(cameras) THEN "spawn" ELSE "show_frame"
    /\ UNCHANGED <<config, drawVars, device, cam_k, startVars, cameras,
                   states, displayVars, j, window>>

-----------------------------------------------------------------------------
(* vision/yolo_infer.py: the worker loops *)

\* the SharedState the display reads, states[current_camera_idx]
Cur == current_camera_idx + 1

\* daemon threads run until the process ends with main()
ProcessAlive == pc_main \notin {"done", "aborted"}

Pipelines == 1..Len(capture)

\* a critical section entered without waiting for the lock
acquire_unguarded(lock) == TRUE

\* threading.Lock.acquire blocks until the lock is free
acquire(lock) == lock = "free"

\* threading.Thread.is_alive() is False
Terminated(t) == t.pc \in {"exit", "crashed"}

\* a capture loop that releases its camera when it leaves the loop
CaptureTestThenRelease(i) ==
    /\ ProcessAlive
    /\ capture[i].pc = "loop"
    /\ capture' = [capture EXCEPT ![i].pc =
                      IF states[i].stop_event THEN "exit" ELSE "read"]
    /\ cameras' = IF states[i].stop_event
                  THEN [cameras EXCEPT ![i].running = FALSE, ![i].cap = "released"]
                  ELSE cameras
    /\ UNCHANGED <<config, drawVars, lockstep, device, pc_main, cam_k, startVars,
                   states, inference, displayVars, j, window>>

\* a capture loop that never looks at stop_event
CaptureTestIgnoresStop(i) ==
    /\ ProcessAlive
    /\ capture[i].pc = "loop"
    /\ capture' = [capture EXCEPT ![i].pc = "read"]
    /\ UNCHANGED <<config, drawVars, lockstep, device, pc_main, cam_k, startVars,
                   cameras, states, inference, displayVars, j, window>>

\* capture_loop line 112: the loop test
CaptureTest(i) ==
    /\ ProcessAlive
    /\ capture[i].pc = "loop"
    /\ capture' = [capture EXCEPT ![i].pc =
                      IF states[i].stop_event THEN "exit" ELSE "read"]
    /\ UNCHANGED <<config, drawVars, lockstep, device, pc_main, cam_k, startVars,
                   cameras, states, inference, displayVars, j, window>>

\* CameraCapture.read_frame lines 216-217, then capture_loop lines 114-116
CaptureReadFrame(i) ==
    /\ ProcessAlive
    /\ capture[i].pc = "read"
    /\ capture' = [capture EXCEPT ![i].pc =
                      IF cameras[i].cap = "None" \/ ~cameras[i].running
                      THEN "sleep" ELSE "cap_read"]
    /\ UNCHANGED <<config, drawVars, lockstep, device, pc_main, cam_k, startVars,
                   cameras, states, inference, displayVars, j, window>>

\* whether the device hands out a frame on this cap.read()
DeviceHasFrame(i) == cameras[i].cap = "open" /\ device[i].next < device[i].limit

\* a capture loop that leaves the loop on a failed read instead of retrying
CaptureCapReadBreak(i) ==
    /\ ProcessAlive
    /\ capture[i].pc = "cap_read"
    /\ \E ok \in {TRUE, FALSE} :
          IF ok
          THEN /\ cameras[i].cap = "open" /\ device[i].next < device[i].limit
               /\ capture' = [capture EXCEPT ![i].pc = "publish",
                                             ![i].frame = Some(device[i].next)]
               /\ device' = [device EXCEPT ![i].next = @ + 1]
          ELSE /\ capture' = [capture EXCEPT ![i].pc = "exit"]
               /\ UNCHANGED device
    /\ UNCHANGED <<config, drawVars, lockstep, pc_main, cam_k, startVars,
                   cameras, states, inference, displayVars, j, window>>

\* CameraCapture.read_frame line 218: cap.read() returns (ok, frame); after a
\* failed read the loop sleeps (capture_loop lines 114-115)
CaptureCapRead(i) ==
    /\ ProcessAlive
    /\ capture[i].pc = "cap_read"
    /\ \E ok \in {TRUE, FALSE} :
          IF ok
          THEN /\ DeviceHasFrame(i)
               /\ capture' = [capture EXCEPT ![i].pc = "publish",
                                             ![i].frame = Some(device[i].next)]
               /\ device' = [device EXCEPT ![i].next = @ + 1]
          ELSE /\ capture' = [capture EXCEPT ![i].pc = "sleep"]
               /\ UNCHANGED device
    /\ UNCHANGED <<config, drawVars, lockstep, pc_main, cam_k, startVars,
                   cameras, states, inference, displayVars, j, window>>

\* a capture loop that counts a failed read as a frame
CaptureContinueCounting(i) ==
    /\ ProcessAlive
    /\ capture[i].pc = "sleep"
    /\ capture' = [capture EXCEPT ![i].pc = "loop"]
    /\ states' = [states EXCEPT ![i].latest_frame_seq = @ + 1]
    /\ UNCHANGED <<config, drawVars, lockstep, device, pc_main, cam_k, startVars,
                   cameras, inference, displayVars, j, window>>

\* capture_loop lines 115-116: the sleep is over, next iteration
CaptureContinue(i) ==
    /\ ProcessAlive
    /\ capture[i].pc = "sleep"
    /\ capture' = [capture EXCEPT ![i].pc = "loop"]
    /\ UNCHANGED <<config, drawVars, lockstep, device, pc_main, cam_k, startVars,
                   cameras, states, inference, displayVars, j, window>>

\* a capture loop that publishes only once the inference loop has seen the
\* previous frame
CapturePublishFrameWhenConsumed(i) ==
    /\ ProcessAlive
    /\ capture[i].pc = "publish"
    /\ states[i].frame_lock = "free"
    /\ inference[i].seq = states[i].latest_frame_seq
    /\ states' = [states EXCEPT ![i].frame_lock = "capture",
                                ![i].latest_frame = capture[i].frame]
    /\ capture' = [capture EXCEPT ![i].pc = "publish_seq"]
    /\ UNCHANGED <<config, drawVars, lockstep, device, pc_main, cam_k, startVars,
                   cameras, inference, displayVars, j, window>>

\* capture_loop lines 118-119: take frame_lock, replace the frame
CapturePublishFrame(i) ==
    /\ ProcessAlive
    /\ capture[i].pc = "publish"
    /\ acquire(states[i].frame_lock)
    /\ states' = [states EXCEPT ![i].frame_lock = "capture",
                                ![i].latest_frame = capture[i].frame]
    /\ capture' = [capture EXCEPT ![i].pc = "publish_seq"]
    /\ UNCHANGED <<config, drawVars, lockstep, device, pc_main, cam_k, startVars,
                   cameras, inference, displayVars, j, window>>

\* capture_loop lines 120-121: count the frame, leave the with block
CapturePublishSeq(i) ==
    /\ ProcessAlive
    /\ capture[i].pc = "publish_seq"
    /\ states' = [states EXCEPT ![i].latest_frame_seq = @ + 1,
                                ![i].frame_lock = "free"]
    /\ capture' = [capture EXCEPT ![i].pc = "loop", ![i].frame = None,
                                  ![i].frame_count = @ + 1]
    /\ lockstep' = [lockstep EXCEPT
                       ![i] = @ /\ inference[i].seq = states[i].latest_frame_seq]
    /\ UNCHANGED <<config, drawVars, device, pc_main, cam_k, startVars,
                   cameras, inference, displayVars, j, window>>

\* an inference loop that never looks at stop_event
InferenceTestIgnoresStop(i) ==
    /\ ProcessAlive
    /\ inference[i].pc = "loop"
    /\ inference' = [inference EXCEPT ![i].pc = "snapshot",
                                      ![i].frame_to_infer = None]
    /\ UNCHANGED <<config, drawVars, lockstep, device, pc_main, cam_k, startVars,
                   cameras, states, capture, displayVars, j, window>>

\* inference_loop lines 149-150: the loop test
InferenceTest(i) ==
    /\ ProcessAlive
    /\ inference[i].pc = "loop"
    /\ inference' = [inference EXCEPT
                        ![i].pc = IF states[i].stop_event THEN "exit" ELSE "snapshot",
                        ![i].frame_to_infer = None]
    /\ UNCHANGED <<config, drawVars, lockstep, device, pc_main, cam_k, startVars,
                   cameras, states, capture, displayVars, j, window>>

\* inference_loop lines 151-152: take frame_lock, read the sequence number
InferenceSnapshot(i) ==
    /\ ProcessAlive
    /\ inference[i].pc = "snapshot"
    /\ acquire(states[i].frame_lock)
    /\ states' = [states EXCEPT ![i].frame_lock = "inference"]
    /\ inference' = [inference EXCEPT ![i].pc = "check",
                                      ![i].seq = states[i].latest_frame_seq]
    /\ UNCHANGED <<config, drawVars, lockstep, device, pc_main, cam_k, startVars,
                   cameras, capture, displayVars, j, window>>

\* a stride test that is off by one
StrideReachedEarly(st, seq, last_processed_seq, infer_stride) ==
    st.latest_frame # None /\ (seq - last_processed_seq) >= infer_stride - 1

\* inference_loop line 153: the frame is due for detection
StrideReached(st, seq, last_processed_seq, infer_stride) ==
    st.latest_frame # None /\ (seq - last_processed_seq) >= infer_stride

\* an inference loop that runs the detection call inside the with block
InferenceCheckKeepsLock(i) ==
    /\ ProcessAlive
    /\ inference[i].pc = "check"
    /\ IF StrideReached(states[i], inference[i].seq,
                        inference[i].last_processed_seq, INFER_STRIDE)
       THEN /\ inference' = [inference EXCEPT
                                ![i].pc = "predict",
                                ![i].frame_to_infer = states[i].latest_frame,
                                ![i].last_processed_seq = inference[i].seq]
            /\ UNCHANGED states
       ELSE /\ inference' = [inference EXCEPT ![i].pc = "loop"]
            /\ states' = [states EXCEPT ![i].frame_lock = "free"]
    /\ UNCHANGED <<config, drawVars, lockstep, device, pc_main, cam_k, startVars,
                   cameras, capture, displayVars, j, window>>

\* an inference loop that never records which frame it processed
InferenceCheckForgetsSeq(i) ==
    /\ ProcessAlive
    /\ inference[i].pc = "check"
    /\ IF StrideReached(states[i], inference[i].seq,
                        inference[i].last_processed_seq, INFER_STRIDE)
       THEN inference' = [inference EXCEPT
                             ![i].pc = "predict",
                             ![i].frame_to_infer = states[i].latest_frame]
       ELSE inference' = [inference EXCEPT ![i].pc = "loop"]
    /\ states' = [states EXCEPT ![i].frame_lock = "free"]
    /\ UNCHANGED <<config, drawVars, lockstep, device, pc_main, cam_k, startVars,
                   cameras, capture, displayVars, j, window>>

\* inference_loop lines 153-159: copy the frame if it is due, leave the with
\* block; without a frame sleep and start the next iteration
InferenceCheck(i) ==
    /\ ProcessAlive
    /\ inference[i].pc = "check"
    /\ IF StrideReached(states[i], inference[i].seq,
                        inference[i].last_processed_seq, INFER_STRIDE)
       THEN inference' = [inference EXCEPT
                             ![i].pc = "predict",
                             ![i].frame_to_infer = states[i].latest_frame,
                             ![i].last_processed_seq = inference[i].seq]
       ELSE inference' = [inference EXCEPT ![i].pc = "loop"]
    /\ states' = [states EXCEPT ![i].frame_lock = "free"]
    /\ UNCHANGED <<config, drawVars, lockstep, device, pc_main, cam_k, startVars,
                   cameras, capture, displayVars, j, window>>

\* YOLOInference.predict: the detections of a frame, named after the frame
predict(frame) == frame

\* inference_loop lines 161-163: the detection call returns or raises; nothing
\* in inference_loop catches what it raises, so the thread ends
InferencePredict(i) ==
    /\ ProcessAlive
    /\ inference[i].pc = "predict"
    /\ \E raised \in {TRUE, FALSE} :
          inference' = IF raised
                       THEN [inference EXCEPT ![i].pc = "crashed"]
                       ELSE [inference EXCEPT
                                ![i].pc = "store",
                                ![i].detections = predict(inference[i].frame_to_infer),
                                ![i].inference_count = @ + 1]
    /\ UNCHANGED <<config, drawVars, lockstep, device, pc_main, cam_k, startVars,
                   cameras, states, capture, displayVars, j, window>>

\* an inference loop that stores into the SharedState on display
InferenceStoreToSelected(i) ==
    /\ ProcessAlive
    /\ inference[i].pc = "store"
    /\ states[Cur].det_lock = "free"
    /\ states' = [states EXCEPT ![Cur].det_lock = "inference",
                                ![Cur].last_detections = inference[i].detections]
    /\ inference' = [inference EXCEPT ![i].pc = "stored"]
    /\ UNCHANGED <<config, drawVars, lockstep, device, pc_main, cam_k, startVars,
                   cameras, capture, displayVars, j, window>>

\* inference_loop lines 165-166: take det_lock, replace the detections
InferenceStore(i) ==
    /\ ProcessAlive
    /\ inference[i].pc = "store"
    /\ acquire(states[i].det_lock)
    /\ states' = [states EXCEPT ![i].det_lock = "inference",
                                ![i].last_detections = inference[i].detections]
    /\ inference' = [inference EXCEPT ![i].pc = "stored"]
    /\ UNCHANGED <<config, drawVars, lockstep, device, pc_main, cam_k, startVars,
                   cameras, capture, displayVars, j, window>>

\* inference_loop line 166: leave the with block, next iteration
InferenceStored(i) ==
    /\ ProcessAlive
    /\ inference[i].pc = "stored"
    /\ states' = [states EXCEPT ![i].det_lock = "free"]
    /\ inference' = [inference EXCEPT ![i].pc = "loop", ![i].detections = <<>>]
    /\ UNCHANGED <<config, drawVars, lockstep, device, pc_main, cam_k, startVars,
                   cameras, capture, displayVars, j, window>>

-----------------------------------------------------------------------------
(* main.py: the display loop *)

\* main.py:104-109: take frame_lock of the selected camera, copy its frame
ShowFrame ==
    /\ pc_main = "show_frame"
    /\ acquire(states[Cur].frame_lock)
    /\ states' = [states EXCEPT ![Cur].frame_lock = "main"]
    /\ frame_to_show' = states[Cur].latest_frame
    /\ detections' = <<>>
    /\ pc_main' = "show_unlock"
    /\ UNCHANGED <<config, drawVars, lockstep, device, cam_k, startVars, cameras,
                   capture, inference, current_camera_idx, j, window>>

\* a display loop that reads the detections inside the frame_lock block
ShowUnlockKeepsLock ==
    /\ pc_main = "show_unlock"
    /\ pc_main' = "show_dets"
    /\ UNCHANGED <<config, drawVars, lockstep, device, cam_k, startVars, cameras,
                   states, capture, inference, displayVars, j, window>>

\* main.py:109: leave the with block
ShowUnlock ==
    /\ pc_main = "show_unlock"
    /\ states' = [states EXCEPT ![Cur].frame_lock = "free"]
    /\ pc_main' = "show_dets"
    /\ UNCHANGED <<config, drawVars, lockstep, device, cam_k, startVars, cameras,
                   capture, inference, displayVars, j, window>>

\* main.py:111-112: take det_lock, copy the detections
ShowDets ==
    /\ pc_main = "show_dets"
    /\ acquire(states[Cur].det_lock)
    /\ states' = [states EXCEPT ![Cur].det_lock = "main"]
    /\ detections' = states[Cur].last_detections
    /\ pc_main' = "show_dets_unlock"
    /\ UNCHANGED <<config, drawVars, lockstep, device, cam_k, startVars, cameras,
                   capture, inference, current_camera_idx, frame_to_show, j, window>>

\* a display loop that goes on to render whether or not it has a frame
ShowDetsUnlockAlwaysRenders ==
    /\ pc_main = "show_dets_unlock"
    /\ states' = [states EXCEPT ![Cur].det_lock = "free"]
    /\ pc_main' = "render"
    /\ UNCHANGED <<config, drawVars, lockstep, device, cam_k, startVars, cameras,
                   capture, inference, displayVars, j, window>>

\* main.py:112-117: leave the with block; without a frame sleep and start over
ShowDetsUnlock ==
    /\ pc_main = "show_dets_unlock"
    /\ states' = [states EXCEPT ![Cur].det_lock = "free"]
    /\ IF frame_to_show = None
       THEN pc_main' = "show_frame" /\ detections' = <<>>
       ELSE pc_main' = "render" /\ UNCHANGED detections
    /\ UNCHANGED <<config, drawVars, lockstep, device, cam_k, startVars, cameras,
                   capture, inference, current_camera_idx, frame_to_show, j, window>>

\* a switch that does not wrap around
SwitchCameraNoWrap(idx, n) == idx + 1

\* main.py:143: the next camera, circularly
SwitchCamera(idx, n) == (idx + 1) % n

\* a display loop whose exception ends main without the finally block
RenderWithoutFinally ==
    /\ pc_main = "render"
    /\ \E key \in {"raise", "c", "q", "other"} :
          /\ window' = IF key = "raise" THEN window ELSE "open"
          /\ current_camera_idx' =
                IF key = "c" THEN SwitchCamera(current_camera_idx, Len(cameras))
                ELSE current_camera_idx
          /\ pc_main' = IF key = "raise" THEN "done"
                        ELSE IF key = "q" THEN "stop" ELSE "show_frame"
    /\ frame_to_show' = None
    /\ detections' = <<>>
    /\ j' = 1
    /\ UNCHANGED <<config, drawVars, lockstep, device, cam_k, startVars, cameras,
                   states, capture, inference>>

\* main.py:119-160: draw and show the frame, then handle the key: 'c' switches
\* the camera, 'q' leaves the loop, an exception raised on the way is caught at
\* line 167; all of these but the loop's next iteration end in the finally block
Render ==
    /\ pc_main = "render"
    /\ \E key \in {"raise", "c", "q", "other"} :
          /\ window' = IF key = "raise" THEN window ELSE "open"
          /\ current_camera_idx' =
                IF key = "c" THEN SwitchCamera(current_camera_idx, Len(cameras))
                ELSE current_camera_idx
          /\ pc_main' = IF key \in {"raise", "q"} THEN "stop" ELSE "show_frame"
    /\ frame_to_show' = None
    /\ detections' = <<>>
    /\ j' = 1
    /\ UNCHANGED <<config, drawVars, lockstep, device, cam_k, startVars, cameras,
                   states, capture, inference>>

\* the lock a with block of the display loop holds at pc, released when an
\* exception leaves the block
Unwind(st, pc) ==
    [st EXCEPT !.frame_lock = IF pc = "show_unlock" THEN "free" ELSE @,
               !.det_lock = IF pc = "show_dets_unlock" THEN "free" ELSE @]

\* main.py:162-166: Ctrl-C anywhere in the try block
KeyboardInterrupt ==
    /\ pc_main \in {"show_frame", "show_unlock", "show_dets", "show_dets_unlock",
                    "render"}
    /\ states' = [states EXCEPT ![Cur] = Unwind(@, pc_main)]
    /\ frame_to_show' = None
    /\ detections' = <<>>
    /\ pc_main' = "stop"
    /\ j' = 1
    /\ UNCHANGED <<config, drawVars, lockstep, device, cam_k, startVars, cameras,
                   capture, inference, current_camera_idx, window>>

-----------------------------------------------------------------------------
(* main.py: the finally block *)

\* main.py:182-183: set the stop event of the next SharedState
SetStop ==
    /\ pc_main = "stop"
    /\ states' = [states EXCEPT ![j].stop_event = TRUE]
    /\ j' = IF j < Len(states) THEN j + 1 ELSE 1
    /\ pc_main' = IF j < Len(states) THEN "stop" ELSE "join_capture"
    /\ UNCHANGED <<config, drawVars, lockstep, device, cam_k, startVars, cameras,
                   capture, inference, displayVars, window>>

\* a join without a timeout
join_forever(t) == Terminated(t)

\* Thread.join(timeout=1.0) returns when the thread has ended or after 1 s
join(t) == Terminated(t) \/ TRUE

\* a shutdown that releases a camera as soon as its capture thread is joined
JoinCaptureThenRelease ==
    /\ pc_main = "join_capture"
    /\ Terminated(capture[j]) \/ TRUE
    /\ cameras' = [cameras EXCEPT ![j].running = FALSE, ![j].cap = "released"]
    /\ pc_main' = "join_inference"
    /\ UNCHANGED <<config, drawVars, lockstep, device, cam_k, startVars,
                   states, capture, inference, displayVars, j, window>>

\* main.py:187
JoinCapture ==
    /\ pc_main = "join_capture"
    /\ join(capture[j])
    /\ pc_main' = "join_inference"
    /\ UNCHANGED <<config, drawVars, lockstep, device, cam_k, startVars, cameras,
                   states, capture, inference, displayVars, j, window>>

\* main.py:188
JoinInference ==
    /\ pc_main = "join_inference"
    /\ join(inference[j])
    /\ j' = IF j < Len(inference) THEN j + 1 ELSE 1
    /\ pc_main' = IF j < Len(inference) THEN "join_capture" ELSE "release"
    /\ UNCHANGED <<config, drawVars, lockstep, device, cam_k, startVars, cameras,
                   states, capture, inference, displayVars, window>>

\* main.py:191-193: release the next camera
ReleaseCamera ==
    /\ pc_main = "release"
    /\ cameras' = [cameras EXCEPT ![j] = release(@)]
    /\ j' = IF j < Len(cameras) THEN j + 1 ELSE 1
    /\ pc_main' = IF j < Len(cameras) THEN "release" ELSE "destroy"
    /\ UNCHANGED <<config, drawVars, lockstep, device, cam_k, startVars, states,
                   capture, inference, displayVars, window>>

\* main.py:195-198: cv2.destroyAllWindows(), main returns
DestroyAllWindows ==
    /\ pc_main = "destroy"
    /\ window' = "destroyed"
    /\ pc_main' = "done"
    /\ UNCHANGED <<config, drawVars, lockstep, device, cam_k, startVars, cameras,
                   states, capture, inference, displayVars, j>>

-----------------------------------------------------------------------------
(* Specifications *)

\* the program after the model is loaded (main.py:41-43) with the given
\* configuration: the camera indices and the frames each camera will deliver
StartWith(win, indices, frames, devices) ==
    /\ IS_WINDOWS = win
    /\ CAMERA_INDICES = indices
    /\ attached = devices
    /\ device = [i \in 1..Len(indices) |-> [next |-> 0, limit |-> frames]]
    /\ pc_main = "camera_init"
    /\ cam_k = 1
    /\ cap = "None" /\ primary = 0 /\ retry_count = 0 /\ error_type = "none"
    /\ env = NoEnv /\ zero_cameras = FALSE /\ ret = "none"
    /\ cameras = <<>> /\ states = <<>>
    /\ capture = <<>> /\ inference = <<>>
    /\ current_camera_idx = 0 /\ frame_to_show = None /\ detections = <<>>
    /\ j = 1
    /\ window = "none"
    /\ lockstep = <<>>
    /\ NoDraw

\* the same with a device attached at every index
Start(win, indices, frames) == StartWith(win, indices, frames, AllIndices)

\* two cameras
Init == Start(FALSE, <<0, 1>>, MaxFrames)

\* one camera delivering the scripted run of frames
ScriptInit == Start(FALSE, <<0>>, ScriptFrames)

Main ==
    \/ OpenFirst \/ Diagnose \/ Reopen \/ ReturnNone \/ ReturnCap
    \/ StartFail \/ StartOk \/ SpawnThreads
    \/ ShowFrame \/ ShowUnlock \/ ShowDets \/ ShowDetsUnlock \/ Render
    \/ KeyboardInterrupt
    \/ SetStop \/ JoinCapture \/ JoinInference \/ ReleaseCamera \/ DestroyAllWindows

Capture(i) ==
    \/ CaptureTest(i) \/ CaptureReadFrame(i) \/ CaptureCapRead(i) \/ CaptureContinue(i)
    \/ CapturePublishFrame(i) \/ CapturePublishSeq(i)

Inference(i) ==
    \/ InferenceTest(i) \/ InferenceSnapshot(i) \/ InferenceCheck(i)
    \/ InferencePredict(i) \/ InferenceStore(i) \/ InferenceStored(i)

Next ==
    \/ Main
    \/ \E i \in Pipelines : CaptureTest(i)
    \/ \E i \in Pipelines : CaptureReadFrame(i)
    \/ \E i \in Pipelines : CaptureCapRead(i)
    \/ \E i \in Pipelines : CaptureContinue(i)
    \/ \E i \in Pipelines : CapturePublishFrame(i)
    \/ \E i \in Pipelines : CapturePublishSeq(i)
    \/ \E i \in Pipelines : InferenceTest(i)
    \/ \E i \in Pipelines : InferenceSnapshot(i)
    \/ \E i \in Pipelines : InferenceCheck(i)
    \/ \E i \in Pipelines : InferencePredict(i)
    \/ \E i \in Pipelines : InferenceStore(i)
    \/ \E i \in Pipelines : InferenceStored(i)

Spec == Init /\ [][Next]_vars

ScriptSpec == ScriptInit /\ [][Next]_vars

\* one camera delivering a short run of frames: two detection calls fit in
ShortInit == Start(FALSE, <<0>>, ShortFrames)

ShortSpec == ShortInit /\ [][Next]_vars

\* one camera at any index, on either platform
CameraInit ==
    \E win \in BOOLEAN : \E idx \in 0..MaxIndex :
       \E devices \in {AllIndices, AllIndices \ {idx}} :
          StartWith(win, <<idx>>, MaxFrames, devices)

CameraSpec == CameraInit /\ [][Next]_vars

\* the main thread keeps running; a worker may block for ever in a camera read
\* or in the detection call
FairSpec == Spec /\ WF_vars(Main)

FairCameraSpec == CameraSpec /\ WF_vars(Main)

\* the threads of pipeline i are scheduled: every camera read and every
\* detection call returns, a lock that stays free is taken
WorkersFair(i) ==
    /\ WF_vars(i \in Pipelines /\ Capture(i))
    /\ WF_vars(i \in Pipelines /\ Inference(i))

\* the worker threads keep running, whatever main does
WorkerSpec == CameraSpec /\ WorkersFair(1)

\* no thread starves: a thread that finds its lock free again and again takes it
NoStarvation(i) ==
    /\ SF_vars(i \in Pipelines /\ Capture(i))
    /\ SF_vars(i \in Pipelines /\ Inference(i))

\* every thread keeps running and none starves
LiveSpec == CameraSpec /\ WF_vars(Main) /\ NoStarvation(1)

\* the camera objects a caller of release() can hold: one that was never
\* started or whose start failed, and one that was started
CameraObjects ==
    UNION {{NewCameraCapture(idx), CameraCapture(idx)} : idx \in 0..MaxIndex}

\* two camera objects on which release() is about to be called
ReleaseInit ==
    /\ IS_WINDOWS = FALSE /\ attached = AllIndices
    /\ CAMERA_INDICES = <<>>
    /\ device = <<>>
    /\ pc_main = "release_calls"
    /\ cam_k = 1
    /\ cap = "None" /\ primary = 0 /\ retry_count = 0 /\ error_type = "none"
    /\ env = NoEnv /\ zero_cameras = FALSE /\ ret = "none"
    /\ cameras \in [1..2 -> CameraObjects]
    /\ states = <<>>
    /\ capture = <<>> /\ inference = <<>>
    /\ current_camera_idx = 0 /\ frame_to_show = None /\ detections = <<>>
    /\ j = 1
    /\ window = "none"
    /\ lockstep = <<>>
    /\ NoDraw

\* camera.release() on one of the objects; j counts the calls
ReleaseCall ==
    /\ pc_main = "release_calls"
    /\ j <= MaxReleases
    /\ \E c \in 1..Len(cameras) : cameras' = [cameras EXCEPT ![c] = release(@)]
    /\ j' = j + 1
    /\ UNCHANGED <<config, drawVars, lockstep, device, pc_main, cam_k, startVars, states,
                   capture, inference, displayVars, window>>

ReleaseNext == ReleaseCall

ReleaseSpec == ReleaseInit /\ [][ReleaseNext]_vars

\* main() is not running: a function or an object is exercised on its own
NoProgram(pc) ==
    /\ IS_WINDOWS = FALSE /\ attached = AllIndices
    /\ CAMERA_INDICES = <<>>
    /\ device = <<>>
    /\ pc_main = pc
    /\ cam_k = 1
    /\ cap = "None" /\ primary = 0 /\ retry_count = 0 /\ error_type = "none"
    /\ env = NoEnv /\ zero_cameras = FALSE /\ ret = "none"
    /\ cameras = <<>> /\ states = <<>>
    /\ capture = <<>> /\ inference = <<>>
    /\ current_camera_idx = 0 /\ frame_to_show = None
    /\ j = 1
    /\ window = "none"
    /\ lockstep = <<>>

\* boxes and zones with integer corners, x1 <= x2 and y1 <= y2
Boxes ==
    {b \in (0..MaxCoord) \X (0..MaxCoord) \X (0..MaxCoord) \X (0..MaxCoord) :
        b[1] <= b[3] /\ b[2] <= b[4]}

\* detections (x1, y1, x2, y2, cls_id, score) of class 0
Detections == {<<b[1], b[2], b[3], b[4], 0, 1>> : b \in Boxes}

\* draw_detections is about to call check_intrusion (postprocess.py:57)
ZoneInit ==
    /\ NoProgram("draw")
    /\ detections \in UNION {[1..n -> Detections] : n \in 0..MaxBoxes}
    /\ warning_zone \in Boxes
    /\ intrusion_detected = FALSE
    /\ fps_counter = FPSCounter(0) /\ fps = NoRate /\ clock = 0

\* postprocess.py:57
CheckIntrusion ==
    /\ pc_main = "draw"
    /\ intrusion_detected' = check_intrusion(detections, warning_zone)
    /\ pc_main' = "drawn"
    /\ UNCHANGED <<config, lockstep, device, cam_k, startVars, cameras, states,
                   capture, inference, displayVars, j, window,
                   warning_zone, fps_counter, fps, clock>>

ZoneNext == CheckIntrusion

ZoneSpec == ZoneInit /\ [][ZoneNext]_vars

\* an FPSCounter has just been constructed (main.py:64)
FpsInit ==
    /\ NoProgram("fps")
    /\ detections = <<>>
    /\ warning_zone = <<>> /\ intrusion_detected = FALSE
    /\ fps_counter = FPSCounter(0) /\ fps = NoRate /\ clock = 0

\* time passes
Tick ==
    /\ pc_main = "fps"
    /\ clock < MaxClock
    /\ clock' = clock + 1
    /\ UNCHANGED <<config, lockstep, device, pc_main, cam_k, startVars, cameras,
                   states, capture, inference, displayVars, j, window,
                   warning_zone, intrusion_detected, fps_counter, fps>>

\* fps = fps_counter.update() (main.py:120); the clock may advance between the
\* two readings of time.time()
Update ==
    /\ pc_main = "fps"
    /\ fps_counter.frame_count < MaxUpdates
    /\ \E later \in {clock, clock + 1} :
          /\ later <= MaxClock
          /\ fps_counter' = update(fps_counter, clock, later)
          /\ clock' = IF clock - fps_counter.start_time >= TicksPerSecond
                      THEN later ELSE clock
    /\ fps' = fps_counter'.fps
    /\ UNCHANGED <<config, lockstep, device, pc_main, cam_k, startVars, cameras,
                   states, capture, inference, displayVars, j, window,
                   warning_zone, intrusion_detected>>

FpsNext == Tick \/ Update

FpsSpec == FpsInit /\ [][FpsNext]_vars

-----------------------------------------------------------------------------
(* Properties *)

\* publishes pipeline i has completed: the frames the device handed out less
\* the one the capture loop still holds
Published(i) ==
    device[i].next - (IF capture[i].pc \in {"publish", "publish_seq"} THEN 1 ELSE 0)

\* detection calls inference loop i has started
Started(i) ==
    inference[i].inference_count
        + (IF inference[i].pc \in {"predict", "crashed"} THEN 1 ELSE 0)

\* the frame slot holds the frame its sequence number was published with
Consistent(st) ==
    st.latest_frame = IF st.latest_frame_seq = -1 THEN None
                      ELSE Some(st.latest_frame_seq)

C1_SeqIsPublishCount ==
    /\ \A i \in 1..Len(states) \ Pipelines : states[i].latest_frame_seq = -1
    /\ \A i \in Pipelines :
          /\ states[i].latest_frame_seq = -1 + Published(i)
          /\ states[i].latest_frame_seq = -1 + capture[i].frame_count
          /\ inference[i].seq <= states[i].latest_frame_seq

C1_SeqStep ==
    \A i \in Pipelines :
       i \in 1..Len(capture') =>
          /\ states'[i].latest_frame_seq \in
                {states[i].latest_frame_seq, states[i].latest_frame_seq + 1}
          /\ states'[i].latest_frame_seq = states[i].latest_frame_seq + 1
                <=> capture'[i].frame_count = capture[i].frame_count + 1
          /\ inference'[i].seq >= inference[i].seq

\* C1: latest_frame_seq of every SharedState starts at -1 and is -1 plus the
\* number of publishes its capture loop has completed; every publish raises it
\* by exactly 1, and the sequence numbers a reader snapshots never decrease.
C1_FrameSeqCountsPublishes == []C1_SeqIsPublishCount /\ [][C1_SeqStep]_vars

\* a snapshot of sequence number 4 after five publishes, the sixth frame read
C1_Witness ==
    /\ Len(capture) = 1
    /\ inference[1].pc = "check" /\ inference[1].seq = 4
    /\ capture[1].frame_count = 5 /\ capture[1].pc = "publish"

C2_CountBound ==
    \A i \in Pipelines :
       /\ Started(i) <= (Published(i) \div INFER_STRIDE) + 1
       /\ inference[i].pc = "predict" => inference[i].frame_to_infer # None

C2_Gap ==
    \A i \in Pipelines :
       (i \in 1..Len(inference')
          /\ inference'[i].last_processed_seq # inference[i].last_processed_seq) =>
          /\ inference'[i].pc = "predict"
          /\ states[i].latest_frame # None
          /\ inference'[i].last_processed_seq = states[i].latest_frame_seq
          /\ inference'[i].last_processed_seq - inference[i].last_processed_seq
                >= INFER_STRIDE

\* C2: with stride k the inference loop starts a detection call only on a
\* present frame whose sequence number is at least k above the last processed
\* one, and after M publishes it has started at most floor(M/k) + 1 calls.
C2_StrideBoundsDetections == []C2_CountBound /\ [][C2_Gap]_vars

\* the fourth detection call, started on the tenth frame
C2_Witness ==
    /\ Len(inference) = 1
    /\ Started(1) = 4 /\ inference[1].pc = "predict"
    /\ states[1].latest_frame_seq = 9

\* C4: a reader holding frame_lock finds the frame that was published with the
\* sequence number it reads, and the frame copied for detection is the one
\* whose sequence number became last_processed_seq.
C4_NoTornSnapshot ==
    \A i \in Pipelines :
       /\ states[i].frame_lock # "capture" => Consistent(states[i])
       /\ inference[i].pc = "check" =>
             /\ inference[i].seq = states[i].latest_frame_seq
             /\ Consistent(states[i])
       /\ inference[i].pc = "predict" =>
             inference[i].frame_to_infer = Some(inference[i].last_processed_seq)
       /\ (pc_main = "show_unlock" /\ Cur = i) =>
             /\ frame_to_show = states[i].latest_frame
             /\ Consistent(states[i])

\* detection runs on frame 3 while the capture loop is half-way through the
\* publish of frame 5
C4_Witness ==
    /\ Len(inference) = 1
    /\ inference[1].pc = "predict" /\ inference[1].frame_to_infer = Some(3)
    /\ capture[1].pc = "publish_seq" /\ states[1].latest_frame = Some(5)
    /\ states[1].latest_frame_seq = 4

\* the n-th detection call of every inference loop is on sequence number
\* INFER_STRIDE * (n - 1), and the loop that has seen the last frame of the
\* run has made a call for every such number
ExactProcessedSeqs(i) ==
    /\ Started(i) = 0 => inference[i].last_processed_seq = -INFER_STRIDE
    /\ Started(i) >= 1 =>
          inference[i].last_processed_seq = INFER_STRIDE * (Started(i) - 1)
    /\ (inference[i].seq >= 0 /\ inference[i].pc # "check") =>
          Started(i) = (inference[i].seq \div INFER_STRIDE) + 1

\* C9 as stated: whatever the interleaving, the processed sequence numbers of
\* the scripted run are exactly 0, 3, 6, 9.
C9_AsStated == \A i \in Pipelines : ExactProcessedSeqs(i)

\* C9: last_processed_seq starts at -3, and as long as the inference loop has
\* snapshotted every sequence number before the next frame was published, the
\* processed sequence numbers are exactly 0, 3, 6, 9, ...
C9_ExactSeqsInLockstep ==
    \A i \in Pipelines :
       /\ inference[i].pc = "loop" /\ inference[i].seq = -1 =>
             inference[i].last_processed_seq = -INFER_STRIDE
       /\ lockstep[i] => ExactProcessedSeqs(i)

\* the lockstep run of ten frames: the fourth detection call is on seq 9
C9_Witness ==
    /\ Len(inference) = 1
    /\ lockstep[1]
    /\ device[1].next = 10
    /\ inference[1].pc = "predict"
    /\ inference[1].last_processed_seq = 9 /\ Started(1) = 4

\* a diagnosis of the requested index has just run in env: no backend opens
\* the requested index, some other index among 0..2 opens
OtherIndexOnly ==
    /\ pc_main = "retry_sleep"
    /\ Requested \notin env.any /\ env.hinted = {}
    /\ \E idx \in ProbeIndices \ {Requested} : idx \in env.any

C7_Counter ==
    /\ retry_count \in 0..CAMERA_MAX_RETRIES
    /\ pc_main = "retry_sleep" => retry_count >= 1 /\ cap # "open"
    /\ (pc_main = "retry_loop" /\ cap = "open") =>
          ~ENABLED Diagnose /\ ~ENABLED ReturnNone
    /\ pc_main = "start_ok" => ret = "cap" /\ cap = "open"
    /\ pc_main = "start_failed" =>
          ret = "None" /\ cap = "released" /\ retry_count = CAMERA_MAX_RETRIES

C7_RetryStep ==
    /\ retry_count' \in {retry_count, retry_count + 1, 0}
    /\ (pc_main = "retry_loop" /\ pc_main' = "retry_sleep") =>
          retry_count' = retry_count + 1
    /\ (pc_main = "retry_sleep" /\ pc_main' = "retry_loop") =>
          retry_count' = retry_count /\ cap # "open"

\* C7: open_camera_with_retry terminates; it makes at most max_retries retries
\* after the first attempt, each one a diagnosis that counts the retry followed
\* by a sleep and a re-open; it returns the handle as soon as it is open and
\* None only after max_retries retries.
C7_BoundedRetry ==
    /\ []C7_Counter
    /\ [][C7_RetryStep]_vars
    /\ (pc_main = "camera_init") ~> (pc_main \in {"start_ok", "start_failed"})

\* the tenth retry has failed too
C7_Witness ==
    /\ pc_main = "start_failed"
    /\ retry_count = CAMERA_MAX_RETRIES /\ ret = "None"

\* C8 as stated: with no working camera the open returns DeviceNotFound.
C8_AsStated ==
    (zero_cameras /\ pc_main = "start_failed") => ret = "DEVICE_NOT_FOUND"

\* C8: where nothing opens with any backend, every diagnosis yields
\* DEVICE_NOT_FOUND and open_camera_with_retry returns None after exactly
\* max_retries retries; the error kind is reported, not returned.
C8_NoCameraAnywhere ==
    zero_cameras =>
       /\ pc_main # "start_ok" /\ cap # "open"
       /\ pc_main = "retry_sleep" => error_type = "DEVICE_NOT_FOUND"
       /\ pc_main = "start_failed" =>
             /\ ret = "None"
             /\ retry_count = CAMERA_MAX_RETRIES
             /\ error_type = "DEVICE_NOT_FOUND"

\* the open has given up in a system without any camera
C8_Witness ==
    /\ zero_cameras /\ pc_main = "start_failed"
    /\ error_type = "DEVICE_NOT_FOUND" /\ ret = "None"

\* every camera main started is released and the display is torn down
ShutdownComplete ==
    /\ \A c \in 1..Len(cameras) :
          cameras[c].cap = "released" /\ ~cameras[c].running
    /\ \A i \in 1..Len(states) : states[i].stop_event
    /\ window = "destroyed"

InFinally == pc_main \in {"stop", "join_capture", "join_inference", "release",
                          "destroy"}

\* the statements of the finally block main has executed
FinallyRank ==
    LET n == Len(states)
    IN  CASE pc_main = "stop" -> j - 1
          [] pc_main = "join_capture" -> n + 2 * (j - 1)
          [] pc_main = "join_inference" -> n + 2 * (j - 1) + 1
          [] pc_main = "release" -> 3 * n + (j - 1)
          [] pc_main = "destroy" -> 4 * n
          [] pc_main = "done" -> 4 * n + 1
          [] OTHER -> -1

C5_NeverBlocked ==
    /\ pc_main = "done" => ShutdownComplete
    /\ InFinally => ENABLED Main
    /\ InFinally => FinallyRank \in 0..(4 * Len(states))

C5_Advances ==
    InFinally =>
       \/ <<pc_main, j>>' = <<pc_main, j>>
       \/ FinallyRank' = FinallyRank + 1

\* C5: the finally block always runs to its end, whatever the worker loops
\* do: in each of its positions main can take its next step (a join returns
\* after its timeout at the latest), each step is the next of its 4N + 1
\* statements, and main returns with stop set everywhere, every camera
\* released and the display torn down.
C5_ShutdownCompletes == []C5_NeverBlocked /\ [][C5_Advances]_vars

\* main has returned while a capture loop is still inside the camera read and
\* an inference loop inside the detection call
C5_Witness ==
    /\ pc_main = "done" /\ ShutdownComplete
    /\ \E i \in Pipelines : capture[i].pc = "cap_read"
    /\ \E i \in Pipelines : inference[i].pc = "predict"

\* C6: a failed camera start releases every camera started before it and
\* ends main with no worker thread started; threads are started only after
\* every configured camera has been started.
C6_AllOrNothingStartup ==
    /\ Len(capture) = Len(inference)
    /\ pc_main \in {"camera_init", "retry_loop", "retry_sleep", "start_ok",
                    "start_failed", "aborted"} =>
          /\ capture = <<>>
          /\ Len(cameras) = cam_k - 1 /\ cam_k <= NumCameras
    /\ pc_main = "aborted" =>
          \A c \in 1..Len(cameras) :
             cameras[c].cap = "released" /\ ~cameras[c].running
    /\ capture # <<>> =>
          /\ Len(cameras) = NumCameras /\ Len(states) = NumCameras
          /\ \A c \in 1..NumCameras :
                /\ cameras[c].camera_index = CAMERA_INDICES[c]
                /\ cameras[c].cap # "None"

\* the second camera failed to start: the first one is released again
C6_Witness ==
    /\ pc_main = "aborted"
    /\ Len(cameras) = 1 /\ cameras[1].cap = "released"
    /\ capture = <<>>

\* C10 as stated: no failure inside a loop body ends the loop, a worker loop
\* ends only when stop is requested.
C10_AsStated ==
    \A i \in Pipelines :
       /\ Terminated(capture[i]) => states[i].stop_event
       /\ Terminated(inference[i]) => states[i].stop_event

\* C10: a failed camera read never ends capture_loop, which leaves the loop
\* only after stop is set; inference_loop leaves its loop normally only after
\* stop is set, but what the detection call raises is not caught and ends that
\* inference thread, and only that thread.
C10_FailuresStayInThread ==
    \A i \in Pipelines :
       /\ capture[i].pc # "crashed"
       /\ capture[i].pc = "exit" => states[i].stop_event
       /\ inference[i].pc = "exit" => states[i].stop_event
       /\ (inference[i].pc = "crashed" /\ ~states[i].stop_event) =>
             /\ pc_main \in {"spawn", "show_frame", "show_unlock", "show_dets",
                             "show_dets_unlock", "render", "stop"}
             /\ capture[i].pc # "exit"

\* a camera read has failed and the capture loop sleeps before it retries,
\* beside an inference loop ended by the detection call
C10_Witness ==
    /\ capture # <<>>
    /\ capture[1].pc = "sleep" /\ ~states[1].stop_event
    /\ inference[1].pc = "crashed"
    /\ capture[1].frame_count = 1

\* the display loop is between main.py:102 and the key handling of line 139
InDisplayLoop ==
    pc_main \in {"show_frame", "show_unlock", "show_dets", "show_dets_unlock"}

\* C11 as stated: every tick of the display loop reaches the key handling,
\* where a pending quit starts the shutdown, whether or not the selected
\* SharedState holds a frame.
C11_AsStated == InDisplayLoop ~> (pc_main \in {"render", "stop"})

AllStopped == \A i \in 1..Len(states) : states[i].stop_event

Released(c) == cameras[c].cap = "released" /\ ~cameras[c].running

C12_Order ==
    /\ pc_main \in {"join_capture", "join_inference", "release", "destroy", "done"}
          => AllStopped
    /\ (capture # <<>> /\ \E c \in 1..Len(cameras) : cameras[c].cap # "open")
          => pc_main \in {"release", "destroy", "done"}
    /\ pc_main = "release" =>
          \A c \in 1..Len(cameras) : IF c < j THEN Released(c)
                                     ELSE cameras[c].cap = "open"
    /\ pc_main \in {"destroy", "done"} => \A c \in 1..Len(cameras) : Released(c)
    /\ window = "destroyed" <=> pc_main = "done"

C12_Steps ==
    /\ (pc_main = "stop" /\ pc_main' # "stop") =>
          pc_main' = "join_capture" /\ j = Len(states) /\ j' = 1
    /\ (pc_main = "join_capture" /\ pc_main' # pc_main) =>
          pc_main' = "join_inference" /\ j' = j
    /\ (pc_main = "join_inference" /\ pc_main' # pc_main) =>
          \/ pc_main' = "join_capture" /\ j' = j + 1 /\ j < Len(inference)
          \/ pc_main' = "release" /\ j = Len(inference) /\ j' = 1
    /\ (pc_main = "release" /\ pc_main' # "release") =>
          pc_main' = "destroy" /\ j = Len(cameras)
    /\ pc_main' = "join_capture" => pc_main \in {"stop", "join_capture", "join_inference"}
    /\ pc_main' = "release" => pc_main \in {"join_inference", "release"}
    /\ pc_main' = "destroy" => pc_main \in {"release", "destroy"}

\* C12: in the finally block stop is set on every SharedState before the first
\* join; the capture and the inference thread of every pipeline have been
\* joined, in pipeline order, before the first camera is released; every
\* camera is released before the windows are destroyed.
C12_ShutdownOrder == []C12_Order /\ [][C12_Steps]_vars

\* the first camera is released, the second not yet, after all joins
C12_Witness ==
    /\ pc_main = "release" /\ j = 2 /\ Len(cameras) = 2
    /\ Released(1) /\ cameras[2].cap = "open"
    /\ AllStopped /\ window = "open"
    /\ \E i \in Pipelines : ~Terminated(capture[i])

C13_Once ==
    \A c \in 1..Len(cameras) :
       LET once == release(cameras[c])
       IN  /\ ~once.running
           /\ once.cap = IF cameras[c].cap = "None" THEN "None" ELSE "released"
           /\ once.camera_index = cameras[c].camera_index
           /\ release(once) = once

C13_Again ==
    \A c \in 1..Len(cameras) :
       /\ cameras'[c] \in {cameras[c], release(cameras[c])}
       /\ cameras[c].cap # "open" => cameras'[c] = cameras[c]

\* C13: release() never fails, whatever the object's state; it leaves
\* running False and the handle released (or still None where no handle was
\* ever opened), and a further release changes nothing.
C13_ReleaseIdempotent ==
    /\ [](pc_main = "release_calls" =>
            /\ C13_Once
            /\ j <= MaxReleases => ENABLED ReleaseCall)
    /\ [][pc_main = "release_calls" => C13_Again]_vars

\* three calls on two objects, so one of them was released at least twice: a
\* started camera, now released, beside one that was never started
C13_Witness ==
    /\ pc_main = "release_calls" /\ j = MaxReleases + 1
    /\ cameras[1].cap = "released" /\ ~cameras[1].running
    /\ cameras[2] = NewCameraCapture(0)

\* who holds which lock of pipeline i, by the position of each thread
C14_Holders(i) ==
    /\ states[i].frame_lock \in {"free", "capture", "inference", "main"}
    /\ states[i].det_lock \in {"free", "inference", "main"}
    /\ states[i].frame_lock = "capture" <=> capture[i].pc = "publish_seq"
    /\ states[i].frame_lock = "inference" <=> inference[i].pc = "check"
    /\ states[i].det_lock = "inference" <=> inference[i].pc = "stored"
    /\ states[i].frame_lock = "main" <=> (pc_main = "show_unlock" /\ Cur = i)
    /\ states[i].det_lock = "main" <=> (pc_main = "show_dets_unlock" /\ Cur = i)

\* a thread about to enter a with block waits for that block's lock only
C14_Waits(i) ==
    /\ (ProcessAlive /\ capture[i].pc = "publish") =>
          (ENABLED CapturePublishFrame(i) <=> states[i].frame_lock = "free")
    /\ (ProcessAlive /\ inference[i].pc = "snapshot") =>
          (ENABLED InferenceSnapshot(i) <=> states[i].frame_lock = "free")
    /\ (ProcessAlive /\ inference[i].pc = "store") =>
          (ENABLED InferenceStore(i) <=> states[i].det_lock = "free")
    /\ (pc_main = "show_frame" /\ Cur = i) =>
          (ENABLED ShowFrame <=> states[i].frame_lock = "free")
    /\ (pc_main = "show_dets" /\ Cur = i) =>
          (ENABLED ShowDets <=> states[i].det_lock = "free")

\* C14: frame_lock and det_lock of a SharedState are held only inside the
\* with blocks that copy or swap their group: the inference loop holds neither
\* during the detection call, main holds neither while it draws and polls the
\* key, no thread holds both, and a thread entering a with block waits for
\* that block's lock only, so a detection call or a detections store never
\* delays a frame publish or a frame snapshot, nor a publish a detections read.
C14_LocksIndependent ==
    \A i \in Pipelines :
       /\ C14_Holders(i)
       /\ inference[i].pc \in {"predict", "crashed"} =>
             states[i].frame_lock # "inference" /\ states[i].det_lock # "inference"
       /\ pc_main = "render" =>
             states[i].frame_lock # "main" /\ states[i].det_lock # "main"
       /\ C14_Waits(i)

\* the capture loop is inside its publish while the detection call runs and
\* main copies the detections
C14_Witness ==
    /\ Len(capture) = 1
    /\ inference[1].pc = "predict" /\ capture[1].pc = "publish_seq"
    /\ pc_main = "show_dets_unlock"
    /\ states[1].frame_lock = "capture" /\ states[1].det_lock = "main"

C15_Owner ==
    \A i \in Pipelines :
       /\ cameras[i].cap = "open" \/ pc_main \in {"release", "destroy", "done"}
       /\ capture[i].pc = "exit" =>
             cameras[i].cap = "open" \/ pc_main \in {"release", "destroy", "done"}

C15_Touches ==
    /\ \A c \in 1..Len(cameras) :
          cameras'[c] # cameras[c] =>
             /\ cameras'[c] = release(cameras[c])
             /\ \/ pc_main = "release" /\ c = j /\ AllStopped
                \/ pc_main = "start_failed" /\ capture = <<>>
    /\ Len(cameras') # Len(cameras) =>
          /\ pc_main = "start_ok" /\ capture = <<>>
          /\ cameras' = Append(cameras, CameraCapture(Requested))
    /\ \A i \in Pipelines :
          /\ device'[i] # device[i] =>
                /\ capture[i].pc = "cap_read" /\ capture'[i].pc = "publish"
                /\ cameras[i].cap = "open"
                /\ inference' = inference /\ pc_main' = pc_main
          /\ (capture'[i] # capture[i] \/ inference'[i] # inference[i]) =>
                cameras' = cameras
          /\ inference'[i] # inference[i] => device' = device

\* C15: frames are read from a camera only by the capture loop of its
\* pipeline; no step of an inference loop or of a capture loop changes a
\* camera object, a capture loop that has left its loop leaves the handle
\* open, and main changes a started camera only by release(), either in the
\* finally block once stop is set everywhere or when it abandons the start-up
\* before any thread exists.
C15_HandleOwnership == []C15_Owner /\ [][C15_Touches]_vars

\* a capture loop has ended and its camera is still open, main is joining
C15_Witness ==
    /\ capture # <<>>
    /\ capture[1].pc = "exit" /\ cameras[1].cap = "open" /\ cameras[1].running
    /\ pc_main = "join_inference" /\ j = 1

\* what capture loop i has published and counted
Channel(i) ==
    <<states[i].latest_frame, states[i].latest_frame_seq, states[i].stop_event,
      capture[i].frame_count>>

C16_Sleeping ==
    \A i \in Pipelines :
       capture[i].pc = "sleep" =>
          /\ capture[i].frame = None
          /\ states[i].frame_lock # "capture"
          /\ ProcessAlive => ENABLED CaptureContinue(i)

C16_FailedIteration ==
    \A i \in Pipelines :
       /\ (capture[i].pc \in {"read", "cap_read"} /\ capture'[i].pc = "sleep") =>
             Channel(i)' = Channel(i) /\ device' = device
       /\ (capture[i].pc = "sleep" /\ capture'[i] # capture[i]) =>
             capture'[i].pc = "loop" /\ Channel(i)' = Channel(i) /\ device' = device
       /\ (capture[i].pc \in {"read", "cap_read", "sleep"}
              /\ states'[i].stop_event # states[i].stop_event) =>
             pc_main = "stop" /\ capture'[i] = capture[i]
       /\ capture'[i].pc = "exit" =>
             capture[i].pc \in {"loop", "exit"} /\ states[i].stop_event

\* C16: a failed read (read_frame returning ok = False) sends capture_loop
\* into its sleep and from there to the next loop test; the failed iteration
\* changes neither latest_frame nor latest_frame_seq nor the frame count, it
\* does not set stop_event and does not end the loop, which ends only at a
\* loop test that finds stop_event set.
C16_ReadFailureIsLocal == []C16_Sleeping /\ [][C16_FailedIteration]_vars

\* the read after the second published frame has failed
C16_Witness ==
    /\ Len(capture) = 1
    /\ capture[1].pc = "sleep" /\ capture[1].frame_count = 2
    /\ states[1].latest_frame = Some(1) /\ states[1].latest_frame_seq = 1
    /\ ~states[1].stop_event

C17_NeverWaitsForConsumer ==
    \A i \in Pipelines :
       (ProcessAlive /\ capture[i].pc # "exit") =>
          /\ ENABLED Capture(i) <=>
                ~(capture[i].pc = "publish" /\ states[i].frame_lock # "free")
          /\ (capture[i].pc = "publish"
                 /\ inference[i].pc \in {"predict", "store", "stored", "crashed"}
                 /\ ~(pc_main = "show_unlock" /\ Cur = i)) =>
                ENABLED CapturePublishFrame(i)

C17_Overwrites ==
    \A i \in Pipelines :
       /\ (capture[i].pc = "cap_read" /\ device'[i] # device[i]) =>
             capture'[i].pc = "publish" /\ capture'[i].frame = Some(device[i].next)
       /\ (capture[i].pc = "publish" /\ capture'[i] # capture[i]) =>
             /\ capture'[i].pc = "publish_seq"
             /\ states'[i].latest_frame = capture[i].frame
       /\ (capture[i].pc = "publish_seq" /\ capture'[i] # capture[i]) =>
             /\ capture'[i].pc = "loop"
             /\ states'[i].latest_frame = states[i].latest_frame
             /\ states'[i].latest_frame_seq = states[i].latest_frame_seq + 1

\* C17: capture_loop publishes every frame it reads, replacing the frame in
\* the slot whether or not the inference loop or the display has read it; the
\* only thing a capture loop ever waits for is frame_lock at the publish, and
\* with the detection call in flight (or ended by an exception) and main
\* outside its frame copy the publish is enabled.
C17_NoBackpressure == []C17_NeverWaitsForConsumer /\ [][C17_Overwrites]_vars

\* ten frames are published while the detection call on frame 0 is in flight
\* and nothing has been displayed
C17_Witness ==
    /\ Len(capture) = 1
    /\ inference[1].pc = "predict" /\ inference[1].frame_to_infer = Some(0)
    /\ inference[1].seq = 0
    /\ states[1].latest_frame = Some(9) /\ states[1].latest_frame_seq = 9
    /\ window = "none"

C18_StopIsSticky ==
    \A i \in 1..Len(states) :
       /\ states[i].stop_event => states'[i].stop_event
       /\ (~states[i].stop_event /\ states'[i].stop_event) => pc_main = "stop" /\ i = j

C18_CheckedOncePerIteration ==
    \A i \in Pipelines :
       /\ (capture[i].pc = "loop" /\ capture'[i] # capture[i]) =>
             capture'[i].pc = IF states[i].stop_event THEN "exit" ELSE "read"
       /\ (inference[i].pc = "loop" /\ inference'[i] # inference[i]) =>
             inference'[i].pc = IF states[i].stop_event THEN "exit" ELSE "snapshot"
       /\ (capture[i].pc # "loop" /\ capture'[i].pc = "exit") => capture[i].pc = "exit"
       /\ (inference[i].pc # "loop" /\ inference'[i].pc = "exit") =>
             inference[i].pc = "exit"

\* both loops of the pipeline have ended, or the process has
LoopsEnded ==
    \/ ~ProcessAlive
    \/ IF capture = <<>> THEN FALSE
       ELSE Terminated(capture[1]) /\ Terminated(inference[1])

StopRequested == IF capture = <<>> THEN FALSE ELSE states[1].stop_event

\* C18: stop_event of a SharedState, once set, stays set; each loop reads it
\* at its loop test only, once per iteration, and leaves the loop there; with
\* the worker threads scheduled (every camera read and detection call
\* returning), once stop_event is set the capture loop and the inference loop
\* of the pipeline both end, also when main itself makes no further step.
C18_CooperativeStop ==
    /\ [][C18_StopIsSticky /\ C18_CheckedOncePerIteration]_vars
    /\ StopRequested ~> LoopsEnded

\* both loops have left at their loop test while main is still joining
C18_Witness ==
    /\ capture # <<>>
    /\ states[1].stop_event
    /\ capture[1].pc = "exit" /\ inference[1].pc = "exit"
    /\ pc_main = "join_capture"

RECURSIVE Switches(_, _, _)
\* the selection after k presses of 'c'
Switches(idx, n, k) ==
    IF k = 0 THEN idx ELSE Switches(SwitchCamera(idx, n), n, k - 1)

C19_Circular ==
    \A n \in 1..MaxCameras : \A idx \in 0..(n - 1) :
       /\ SwitchCamera(idx, n) \in 0..(n - 1)
       /\ SwitchCamera(idx, n) = IF idx = n - 1 THEN 0 ELSE idx + 1
       /\ Switches(idx, n, n) = idx
       /\ \A k \in 1..(n - 1) : Switches(idx, n, k) # idx

C19_InRange ==
    /\ cameras = <<>> => current_camera_idx = 0
    /\ cameras # <<>> => current_camera_idx \in 0..(Len(cameras) - 1)
    /\ capture = <<>> => current_camera_idx = 0

C19_Switch ==
    current_camera_idx' # current_camera_idx =>
       /\ pc_main = "render" /\ pc_main' = "show_frame"
       /\ current_camera_idx' = (current_camera_idx + 1) % Len(cameras)
       /\ cameras' = cameras

\* C19: current_camera_idx starts at 0, changes only when the key handling
\* sees 'c', and then becomes (current_camera_idx + 1) mod N for the N started
\* cameras; it always lies in 0..N-1, and N switches, but no fewer, lead back
\* to the camera they started from.
C19_SwitchIsCircular == [](C19_Circular /\ C19_InRange) /\ [][C19_Switch]_vars

\* the last camera is selected and on display: the next 'c' wraps to camera 0
C19_Witness ==
    /\ pc_main = "render" /\ Len(cameras) = 2
    /\ current_camera_idx = 1 /\ frame_to_show = states[2].latest_frame
    /\ frame_to_show # None /\ window = "open"

FrameGroup(i) == <<states[i].latest_frame, states[i].latest_frame_seq>>

C20_Writers ==
    \A i \in Pipelines :
       /\ FrameGroup(i)' # FrameGroup(i) =>
             /\ capture[i].pc \in {"publish", "publish_seq"}
             /\ capture'[i] # capture[i]
             /\ \A k \in Pipelines \ {i} : capture'[k] = capture[k]
             /\ inference' = inference /\ pc_main' = pc_main
       /\ states'[i].last_detections # states[i].last_detections =>
             /\ inference[i].pc = "store" /\ inference'[i].pc = "stored"
             /\ states'[i].last_detections = inference[i].detections
             /\ \A k \in Pipelines \ {i} : inference'[k] = inference[k]
             /\ capture' = capture /\ pc_main' = pc_main
       /\ (capture'[i] # capture[i] \/ inference'[i] # inference[i]) =>
             /\ UNCHANGED <<displayVars, pc_main, j>>
             /\ \A k \in 1..Len(states) \ {i} : states'[k] = states[k]

C20_MainOnlyReads ==
    /\ (pc_main' # pc_main \/ j' # j) =>
          \A i \in 1..Len(states) :
             /\ FrameGroup(i)' = FrameGroup(i)
             /\ states'[i].last_detections = states[i].last_detections
    /\ current_camera_idx' # current_camera_idx => states' = states

\* whether a worker loop can step depends on its own pipeline only
C20_OwnPipelineOnly ==
    \A i \in Pipelines :
       /\ ENABLED Capture(i) <=>
             /\ ProcessAlive /\ capture[i].pc # "exit"
             /\ capture[i].pc = "publish" => states[i].frame_lock = "free"
       /\ ENABLED Inference(i) <=>
             /\ ProcessAlive /\ inference[i].pc \notin {"exit", "crashed"}
             /\ inference[i].pc = "snapshot" => states[i].frame_lock = "free"
             /\ inference[i].pc = "store" => states[i].det_lock = "free"

\* C20: latest_frame and latest_frame_seq of SharedState i change only in a
\* step of capture loop i, last_detections only in the store of inference
\* loop i; a worker step changes no other SharedState and neither reads nor
\* changes the selection; no step of main changes a frame, a sequence number
\* or detections, and a camera switch leaves every SharedState as it is.
C20_WriteOwnership ==
    /\ []C20_OwnPipelineOnly
    /\ [][C20_Writers /\ C20_MainOnlyReads]_vars

\* the second camera is selected; both SharedStates hold the frame and the
\* detections their own loops stored
C20_Witness ==
    /\ Len(capture) = 2
    /\ pc_main = "show_frame" /\ current_camera_idx = 1
    /\ \A i \in 1..2 :
          /\ states[i].latest_frame = Some(0) /\ states[i].latest_frame_seq = 0
          /\ states[i].last_detections = predict(Some(0))
          /\ inference[i].inference_count = 1

\* the two closed rectangles have a pixel in common
SharePoint(a, b) ==
    \E x \in 0..MaxCoord, y \in 0..MaxCoord :
       /\ a[1] <= x /\ x <= a[3] /\ a[2] <= y /\ y <= a[4]
       /\ b[1] <= x /\ x <= b[3] /\ b[2] <= y /\ y <= b[4]

\* box lies beside, above or below the zone without touching it
StrictlyOutside(box, zone) ==
    box[3] < zone[1] \/ box[1] > zone[3] \/ box[4] < zone[2] \/ box[2] > zone[4]

\* C21: the overlap test of check_intrusion gives the same answer with box
\* and zone exchanged; it is true exactly for the boxes that share at least
\* one point with the zone (inside, partly inside, or touching its boundary)
\* and false exactly for those strictly outside; check_intrusion is true iff
\* some detection of the list passes the test, and false for the empty list.
C21_ZoneOverlap ==
    /\ \A d \in 1..Len(detections) :
          LET box == Corners(detections[d])
          IN  /\ Overlaps(box, warning_zone) = Overlaps(warning_zone, box)
              /\ Overlaps(box, warning_zone) = SharePoint(box, warning_zone)
              /\ Overlaps(box, warning_zone) = ~StrictlyOutside(box, warning_zone)
    /\ check_intrusion(<<>>, warning_zone) = FALSE
    /\ pc_main = "drawn" =>
          intrusion_detected =
             (\E d \in 1..Len(detections) :
                 Overlaps(Corners(detections[d]), warning_zone))

\* the first box is strictly outside the zone, the second touches its left
\* edge from outside: an intrusion
C21_Witness ==
    /\ pc_main = "drawn" /\ intrusion_detected
    /\ warning_zone = <<1, 0, 2, 2>>
    /\ Len(detections) = 2
    /\ Corners(detections[1]) = <<0, 0, 0, 2>>
    /\ Corners(detections[2]) = <<0, 0, 1, 1>>

\* the rate r is n frames per second
IsRate(r, n) == r.num = n * r.den

C22_Window ==
    pc_main = "fps" =>
       /\ fps = fps_counter.fps
       /\ fps_counter.start_time <= clock
       /\ fps_counter.start_time = 0 => fps = NoRate
       /\ fps # NoRate => fps.den >= TicksPerSecond /\ fps.num >= TicksPerSecond

C22_Update ==
    (pc_main = "fps" /\ fps_counter' # fps_counter) =>
       LET elapsed == clock - fps_counter.start_time
           count == fps_counter.frame_count + 1
       IN  /\ fps' = fps_counter'.fps
           /\ IF elapsed >= TicksPerSecond
              THEN /\ fps'.num * elapsed = count * TicksPerSecond * fps'.den
                   /\ fps_counter'.frame_count = 0
                   /\ fps_counter'.start_time = clock'
                   /\ clock' \in {clock, clock + 1}
                   /\ (count = 30 /\ elapsed = TicksPerSecond) => IsRate(fps', 30)
              ELSE /\ fps_counter'.frame_count = count
                   /\ fps_counter'.start_time = fps_counter.start_time
                   /\ fps' = fps
                   /\ clock' = clock

\* C22: every update() counts the call; the call that finds at least one
\* second elapsed since the window started returns count / elapsed with that
\* call counted, sets the count to 0 and starts a new window at the current
\* time; every other call returns the rate computed last, 0.0 before the
\* first window has closed.  Thirty calls of which the thirtieth comes exactly
\* one second after the start give 30.0, which later calls keep returning.
C22_RateCounter == []C22_Window /\ [][C22_Update]_vars

\* 30.0 from thirty calls in the first second is still returned by the fifth
\* call of the next window
C22_Witness ==
    /\ pc_main = "fps"
    /\ IsRate(fps, 30) /\ fps.den = TicksPerSecond
    /\ fps_counter.start_time = TicksPerSecond
    /\ fps_counter.frame_count = 5
    /\ clock = fps_counter.start_time + TicksPerSecond - 1

\* the diagnosis that has just run, statement by statement
LastDiagnosis == diagnose_run(Requested, IS_WINDOWS, env)

\* the first fallback backend that opens the requested index, 0 if none does
FirstFallback ==
    LET backends == FallbackBackends(IS_WINDOWS)
        opening == {b \in 1..Len(backends) :
                       VideoCapture(env, Requested, Requested, backends[b])}
    IN  IF opening = {} THEN 0
        ELSE CHOOSE b \in opening : \A c \in opening : b <= c

C24_NoProbeLeak ==
    pc_main = "retry_sleep" =>
       /\ \A h \in 1..Len(LastDiagnosis.handles) :
             LastDiagnosis.handles[h] = "released"
       /\ Len(LastDiagnosis.handles) \in
             1..(1 + Len(FallbackBackends(IS_WINDOWS)) + Cardinality(ProbeIndices))

\* all seven probes of a Linux diagnosis ran, and the last one opened
C24_Witness ==
    /\ pc_main = "retry_sleep" /\ ~IS_WINDOWS /\ Requested = 3
    /\ env.any = {2} /\ env.hinted = {}
    /\ Len(LastDiagnosis.handles) = 7
    /\ error_type = "DEVICE_NOT_FOUND"

\* C25: open_camera_with_retry never holds more than one capture object: it
\* holds exactly one from the first open to its return, the previous one is
\* released before each re-open, and when the retries are used up the last
\* one is released before None is returned; a CameraCapture whose start()
\* failed has cap None and running False.
C25_OnePrimaryHandle ==
    /\ primary \in 0..1
    /\ pc_main \in {"retry_loop", "retry_sleep", "start_ok"} => primary = 1
    /\ pc_main = "retry_sleep" => cap # "open" /\ cap_release(primary) = 0
    /\ pc_main = "start_ok" =>
          /\ cap = "open" /\ ret = "cap"
          /\ start(NewCameraCapture(Requested), ret) = CameraCapture(Requested)
    /\ pc_main = "start_failed" =>
          /\ primary = 0 /\ cap = "released" /\ ret = "None"
          /\ start(NewCameraCapture(Requested), ret).cap = "None"
          /\ ~start(NewCameraCapture(Requested), ret).running
    /\ pc_main \notin {"retry_loop", "retry_sleep", "start_ok"} => primary = 0

\* all retries were used up and the last handle was released
C25_Witness ==
    /\ pc_main = "start_failed" /\ retry_count = CAMERA_MAX_RETRIES
    /\ primary = 0 /\ cap = "released"

\* the sequence number of the frame the display has just snapshotted from
\* pipeline i (main still holds its frame_lock), -2 when it has not
SnapshotSeq(i) ==
    IF pc_main = "show_unlock" /\ Cur = i /\ i \in 1..Len(states)
          /\ frame_to_show # None
    THEN states[i].latest_frame_seq ELSE -2

\* the sequence number inference loop i has just taken up for detection, -2
\* when it is not at the detection call
ProcessedSeq(i) ==
    IF i \in 1..Len(inference) /\ inference[i].pc = "predict"
    THEN inference[i].last_processed_seq ELSE -2

\* last_processed_seq of inference loop i, its initial value before the loop
\* exists
LastProcessed(i) ==
    IF i \in 1..Len(inference) THEN inference[i].last_processed_seq
    ELSE -INFER_STRIDE

\* a detection call starts on a frame whose sequence number is at least the
\* stride above the one processed before
C26_ProcessedIncreases ==
    \A i \in Pipelines :
       (i \in 1..Len(inference') /\ inference'[i].pc = "predict"
          /\ inference[i].pc # "predict") =>
          /\ inference'[i].last_processed_seq = inference[i].seq
          /\ inference'[i].frame_to_infer = Some(inference[i].seq)
          /\ inference[i].seq - inference[i].last_processed_seq >= INFER_STRIDE
          /\ inference[i].seq > inference[i].last_processed_seq

\* the number of the frame last taken up for detection is never lowered:
\* with the step above, the frames taken up have strictly increasing numbers
C26_NeverReprocessed ==
    \A k \in 0..ShortFrames :
       [](LastProcessed(1) = k => [](LastProcessed(1) >= k))

\* once the display snapshotted the frame numbered k, it never snapshots a
\* frame with a lower number
C26_DisplayNeverGoesBack ==
    \A k \in 0..ShortFrames :
       [](SnapshotSeq(1) = k => [](SnapshotSeq(1) = -2 \/ SnapshotSeq(1) >= k))

\* C26: in every interleaving the frames taken up by an inference loop have
\* strictly increasing sequence numbers, consecutive ones at least the stride
\* apart, and the frames snapshotted by the display for a camera have
\* sequence numbers that never decrease.
C26_NoStaleFrame ==
    /\ [][C26_ProcessedIncreases]_vars
    /\ C26_NeverReprocessed
    /\ C26_DisplayNeverGoesBack

\* the display has snapshotted frame 4 while the inference loop is at its
\* second detection call, on frame 4
C26_Witness ==
    /\ SnapshotSeq(1) = 4
    /\ ProcessedSeq(1) = 4 /\ inference[1].inference_count = 1

\* main is inside the try block of main.py:95-160
InTry == InDisplayLoop \/ pc_main = "render"

\* a step that leaves the try block enters the finally block at its first
\* statement, with no channel lock left to main
C27_Exit ==
    (InTry /\ ~InTry') =>
       /\ pc_main' = "stop" /\ j' = 1
       /\ \A i \in 1..Len(states') :
             states'[i].frame_lock # "main" /\ states'[i].det_lock # "main"

\* the finally block is entered from the try block only, and main does
\* nothing after it
C27_Once ==
    /\ (pc_main' = "stop" /\ pc_main # "stop") => InTry
    /\ InFinally => ~InTry'
    /\ pc_main = "done" => pc_main' = "done"

\* main returns with the whole shutdown done
C27_Done == pc_main = "done" /\ ShutdownComplete

\* C27: every way out of the display loop (quit key, Ctrl-C, an exception
\* while snapshotting or rendering) enters the finally block at its first
\* statement; the block is entered from nowhere else and never again, and it
\* runs to the end: stop set on every channel, every worker joined, every
\* camera released, the windows destroyed.
C27_EveryExitShutsDown ==
    /\ [][C27_Exit /\ C27_Once]_vars
    /\ (pc_main = "stop") ~> C27_Done
    /\ [](C27_Done => []C27_Done)

\* an exception ended the display loop before anything was shown, while both
\* capture loops are inside the camera read
C27_Witness ==
    /\ pc_main = "stop" /\ j = 1 /\ window # "open" /\ ~AllStopped
    /\ Len(states) = 2
    /\ \A i \in Pipelines : capture[i].pc = "cap_read"

\* the stop indicator of the channel is set
StopSet == states # <<>> /\ states[1].stop_event

\* latest_frame_seq of the channel
SeqNow == IF states = <<>> THEN -1 ELSE states[1].latest_frame_seq

\* detection calls started on the channel so far
StartedNow == IF inference = <<>> THEN 0 ELSE Started(1)

\* detection sets stored into the channel so far: every detection call that
\* returned, less the one whose result is still to be stored
StoredNow ==
    IF inference = <<>> THEN 0
    ELSE inference[1].inference_count
            - (IF inference[1].pc = "store" THEN 1 ELSE 0)

\* from the moment stop is set, at most one more frame is published
C28_OneMoreFrame ==
    \A k \in -1..ShortFrames :
       []((StopSet /\ SeqNow = k) => [](SeqNow <= k + 1))

\* from the moment stop is set, at most one more detection call is started
\* and at most one more detection set stored
C28_OneMoreDetection ==
    \A k \in 0..ShortFrames :
       /\ []((StopSet /\ StartedNow = k) => [](StartedNow <= k + 1))
       /\ []((StopSet /\ StoredNow = k) => [](StoredNow <= k + 1))

\* with both loops of a channel ended, no step changes the channel or the loops
C28_Quiescent ==
    \A i \in Pipelines :
       (Terminated(capture[i]) /\ Terminated(inference[i])) =>
          /\ states'[i] = states[i]
          /\ capture'[i] = capture[i] /\ inference'[i] = inference[i]

\* C28: once stop is set on a channel its capture loop publishes at most one
\* more frame, its inference loop starts at most one more detection call and
\* stores at most one more detection set, and after both loops have ended
\* the channel never changes.
C28_BoundedAfterStop ==
    /\ C28_OneMoreFrame
    /\ C28_OneMoreDetection
    /\ [][C28_Quiescent]_vars

\* stop is set while the capture loop holds a frame it has yet to publish and
\* the inference loop is inside its second detection call
C28_Witness ==
    /\ StopSet /\ capture[1].pc = "publish" /\ SeqNow = 3
    /\ inference[1].pc = "predict" /\ StartedNow = 2 /\ StoredNow = 1

\* the channel locks a thread holds; a thread is main, or the capture or the
\* inference loop of a pipeline
LocksHeld(thread, i) ==
    {<<c, lock>> \in (1..Len(states)) \X {"frame_lock", "det_lock"} :
        /\ states[c][lock] = thread
        /\ thread = "main" \/ c = i}

\* no thread holds two channel locks, of one channel or of two
C29_AtMostOneLock ==
    /\ Cardinality(LocksHeld("main", 0)) <= 1
    /\ \A i \in Pipelines :
          /\ Cardinality(LocksHeld("capture", i)) <= 1
          /\ Cardinality(LocksHeld("inference", i)) <= 1
          /\ states[i].det_lock # "capture"

\* a thread that waits for a lock holds none
C29_NoHoldAndWait ==
    /\ pc_main \in {"show_frame", "show_dets"} => LocksHeld("main", 0) = {}
    /\ \A i \in Pipelines :
          /\ capture[i].pc = "publish" => LocksHeld("capture", i) = {}
          /\ inference[i].pc \in {"snapshot", "store"} =>
                LocksHeld("inference", i) = {}

\* whoever holds a lock can take the step that releases it
C29_HolderCanRelease ==
    \A i \in Pipelines :
       ProcessAlive =>
          /\ states[i].frame_lock = "capture" => ENABLED CapturePublishSeq(i)
          /\ states[i].frame_lock = "inference" => ENABLED InferenceCheck(i)
          /\ states[i].det_lock = "inference" => ENABLED InferenceStored(i)
          /\ states[i].frame_lock = "main" => ENABLED ShowUnlock
          /\ states[i].det_lock = "main" => ENABLED ShowDetsUnlock

\* C29: no thread ever holds two channel locks, a thread waiting for a lock
\* holds none, and the holder of a lock can always take the step that frees
\* it: no set of threads waits for one another.
C29_NoLockDeadlock ==
    /\ C29_AtMostOneLock
    /\ C29_NoHoldAndWait
    /\ C29_HolderCanRelease

\* three locks of the two channels are held, by three threads, while a fourth
\* thread waits for one of them
C29_Witness ==
    /\ Len(states) = 2 /\ Cur = 1
    /\ states[1].frame_lock = "main" /\ states[1].det_lock = "inference"
    /\ states[2].frame_lock = "capture"
    /\ inference[2].pc = "snapshot"

\* C30 as stated: in every reachable state of every SharedState,
\* latest_frame_seq >= -1 and latest_frame is absent exactly when
\* latest_frame_seq = -1.
C30_AsStated ==
    \A i \in 1..Len(states) :
       /\ states[i].latest_frame_seq >= -1
       /\ states[i].latest_frame = None <=> states[i].latest_frame_seq = -1

\* C30: latest_frame_seq >= -1 always, and whenever the capture loop is not
\* inside its publish (so for every reader holding frame_lock) latest_frame
\* is absent exactly when latest_frame_seq = -1; inside the first publish
\* the frame is present while the number is still -1. The inference loop is
\* in a detection call, and the display renders, only after the first frame
\* of that channel has been published.
C30_FrameIffPublished ==
    /\ \A i \in 1..Len(states) :
          /\ states[i].latest_frame_seq >= -1
          /\ states[i].frame_lock # "capture" =>
                (states[i].latest_frame = None <=> states[i].latest_frame_seq = -1)
          /\ states[i].frame_lock = "capture" => states[i].latest_frame # None
    /\ \A i \in Pipelines :
          inference[i].pc \in {"predict", "store", "stored", "crashed"} =>
             /\ states[i].latest_frame_seq >= 0
             /\ inference[i].last_processed_seq >= 0
    /\ pc_main = "render" =>
          /\ frame_to_show # None
          /\ states[Cur].latest_frame_seq >= 0

\* the capture loop is inside its first publish: the frame is stored, the
\* number still -1, and the inference loop waits for frame_lock
C30_Witness ==
    /\ capture # <<>> /\ capture[1].pc = "publish_seq"
    /\ states[1].frame_lock = "capture"
    /\ states[1].latest_frame # None /\ states[1].latest_frame_seq = -1
    /\ inference[1].pc = "snapshot"

\* C31 as stated: a camera that main has released in the finally block has a
\* capture loop that has terminated, so no camera read is in flight on, or
\* issued against, a released handle.
C31_AsStated ==
    \A i \in Pipelines :
       cameras[i].cap = "released" =>
          /\ Terminated(capture[i])
          /\ capture[i].pc \notin {"read", "cap_read"}

\* a step of capture loop i that goes on to cap.read(): read_frame has passed
\* its test of cap and running
C32_TouchesDevice(i) ==
    capture[i].pc = "read" /\ capture'[i].pc = "cap_read"

\* a step in which capture loop i is handed a frame by the device
C32_YieldsFrame(i) ==
    capture[i].pc = "cap_read" /\ capture'[i].pc = "publish"

C32_Step ==
    \A i \in Pipelines :
       /\ C32_TouchesDevice(i) => cameras[i].cap = "open" /\ cameras[i].running
       /\ C32_YieldsFrame(i) => cameras[i].cap = "open" /\ cameras[i].running
       /\ cameras[i].cap = "released" =>
             /\ states'[i].latest_frame = states[i].latest_frame
             /\ states'[i].latest_frame_seq = states[i].latest_frame_seq

\* C32 as stated: read_frame goes to the device, and yields a frame, only on
\* a camera that was started and not yet released, so once a camera has been
\* released its capture loop publishes no further frame and latest_frame_seq
\* stays unchanged.
C32_AsStated == [][C32_Step]_vars

====
